---- MODULE Spec2Model ----
(***************************************************************************)
(* Model of the proxy pool of Clutch-Scraper (src/proxy/manager.rs,        *)
(* src/proxy/stats.rs): bounded-concurrency validation of the candidate    *)
(* list at construction, then get_proxy / mark_proxy_success /             *)
(* mark_proxy_failure / print_report called by concurrent callers, each    *)
(* call split at its lock acquisitions and map/list mutations.             *)
(***************************************************************************)
EXTENDS Integers, Sequences, FiniteSets, TLC

\* ------------------------------------------------------------------ bounds
MaxCandidates == 3      \* longest candidate list of SpecValidation
MaxConcurrent == 2      \* largest concurrency limit of SpecValidation
MaxThreshold == 2       \* largest failure threshold
MaxClock == 2           \* last instant the clock reaches
MaxOps == 3             \* calls the single caller of Spec makes
MaxConcurrentOps == 1   \* calls the first caller of SpecConcurrent makes
MaxLines == 2           \* most lines of the proxy file of SpecParse
MaxLineLen == 2         \* most characters of one of its lines
MaxPages == 2           \* pages of results the site has
MaxLoopRetries == 1     \* largest config.max_retries of SpecDownload

\* fn default_proxy_max_retries / fn default_proxy_concurrent_validations
DefaultMaxRetries == 2
DefaultConcurrentValidations == 5
DefaultRequestTimeout == 15
DefaultLoopMaxRetries == 3
DefaultRetryDelay == 5
DefaultSwitchDelay == 2

\* ------------------------------------------------------------ input sets
Urls == {"socks5://a", "socks5://b"}
ProbeOutcomes == {"success", "non200", "transport", "timeout"}

Callers == {"c1", "c2"}
NoHolder == "free"

\* Option<u16>
SomeCode(code) == [some |-> TRUE, code |-> code]
NoneCode == [some |-> FALSE, code |-> 0]

VARIABLES
    config,                  \* the Config that Config::from_file returned
    contents,                \* the proxy file: its lines, each a list of characters
    proxies,                 \* Vec<String> handed to validate_proxies
    concurrent_validations,  \* config.proxy.concurrent_validations
    max_retries,             \* config.proxy.max_retries
    working_proxies,         \* HashMap<String, ProxyState>
    dead_proxies,            \* Vec<String>
    all_stats,               \* HashMap<String, Arc<Mutex<ProxyStats>>>
    proxy_stats,             \* the ProxyStats objects behind the Arcs
    working_lock, dead_lock, all_stats_lock, stats_lock,
    clock,                   \* last value Instant::now() returned
    vpc,                     \* position of validate_proxies / new
    next_candidate,          \* index of the for-loop over proxies
    tasks,                   \* FuturesUnordered: spawned, not yet yielded
    task_state,              \* position of every probe task
    probe_result,            \* what the probe of a task not yet yielded saw
    pc, op_args, to_remove, removed_state, ret, report,
    budget,                  \* calls each caller may still start
    snap,                    \* history: the pool as a call found it when it
                             \* took working_lock
    main,                    \* the download loop of main: position, counters,
                             \* proxy in use, page
    exhausted,               \* history: the errors get_proxy has returned
    served                   \* history: what the get_proxy calls returned
                             \* since the last call that was neither
                             \* get_proxy nor a success report for the
                             \* proxy just returned

vars == <<config, contents, proxies, concurrent_validations, max_retries, working_proxies,
          dead_proxies, all_stats, proxy_stats, working_lock, dead_lock,
          all_stats_lock, stats_lock, clock, vpc, next_candidate, tasks,
          task_state, probe_result, pc, op_args, to_remove, removed_state, ret,
          report, budget, snap, main, exhausted, served>>

config_vars == <<config, contents, proxies, concurrent_validations, max_retries>>
pool_vars == <<working_proxies, dead_proxies, all_stats, proxy_stats>>
lock_vars == <<working_lock, dead_lock, all_stats_lock, stats_lock>>
validation_vars == <<vpc, next_candidate, tasks, task_state, probe_result>>
caller_vars == <<pc, op_args, to_remove, removed_state, ret, report, budget,
                snap>>

\* --------------------------------------------------------------- helpers
Restrict(f, D) == [x \in D |-> f[x]]

SeqsUpTo(S, n) == UNION {[1..k -> S] : k \in 0..n}

\* the orders in which a HashMap may yield the keys in S
IterOrders(S) ==
    {f \in [1..Cardinality(S) -> S] : \A x \in S : \E i \in DOMAIN f : f[i] = x}

Range(s) == {s[i] : i \in DOMAIN s}

\* the values a call of Instant::now() may return (monotonic clock)
NowValues == {t \in {clock, clock + 1} : t <= MaxClock}

\* ProxyStats::new() followed by set_validation_status("success")
NewStats ==
    [validation_status |-> "None", total_requests |-> 0,
     successful_requests |-> 0, failed_requests |-> 0,
     status_codes |-> <<>>, successful_urls |-> <<>>, failed_urls |-> <<>>]

set_validation_status(s, status) == [s EXCEPT !.validation_status = status]

\* *self.status_codes.entry(code).or_default() += 1
BumpCode(h, code) ==
    IF code \in DOMAIN h
    THEN [h EXCEPT ![code] = @ + 1]
    ELSE [c \in DOMAIN h \cup {code} |-> IF c = code THEN 1 ELSE h[c]]

\* mutant: the histogram entry is set to 1 instead of being incremented
record_success_CodeSeenOnce(s, url, status_code) ==
    [s EXCEPT !.total_requests = @ + 1,
              !.successful_requests = @ + 1,
              !.status_codes = [c \in DOMAIN @ \cup {status_code} |->
                                  IF c = status_code THEN 1 ELSE @[c]],
              !.successful_urls = Append(@, url)]

record_success(s, url, status_code) ==
    [s EXCEPT !.total_requests = @ + 1,
              !.successful_requests = @ + 1,
              !.status_codes = BumpCode(@, status_code),
              !.successful_urls = Append(@, url)]

\* mutant: a failure without a status code is not counted in total_requests
record_failure_TotalWithCodeOnly(s, url, reason, status_code) ==
    [s EXCEPT !.total_requests = IF status_code.some THEN @ + 1 ELSE @,
              !.failed_requests = @ + 1,
              !.status_codes = IF status_code.some
                               THEN BumpCode(@, status_code.code) ELSE @,
              !.failed_urls = Append(@, <<url, reason>>)]

\* mutant: a failure without a status code is counted under code 0
record_failure_AlwaysCounted(s, url, reason, status_code) ==
    [s EXCEPT !.total_requests = @ + 1,
              !.failed_requests = @ + 1,
              !.status_codes = BumpCode(@, status_code.code),
              !.failed_urls = Append(@, <<url, reason>>)]

record_failure(s, url, reason, status_code) ==
    [s EXCEPT !.total_requests = @ + 1,
              !.failed_requests = @ + 1,
              !.status_codes = IF status_code.some
                               THEN BumpCode(@, status_code.code) ELSE @,
              !.failed_urls = Append(@, <<url, reason>>)]

NoArgs == [proxy_url |-> "", url |-> "", error |-> "", status_code |-> NoneCode]
NoState == [url |-> "", failures |-> 0, last_used |-> 0, stats |-> 0]
NoRet == [kind |-> "None", url |-> "", failed_proxies |-> <<>>]
NoReport == [working |-> 0, dead |-> 0]
NoSnap == [working |-> <<>>, dead |-> <<>>, archive |-> <<>>, stats |-> <<>>]

\* the three shared collections and the stats objects they refer to
Pool ==
    [working |-> working_proxies, dead |-> dead_proxies, archive |-> all_stats,
     stats |-> proxy_stats]

\* --------------------------------------------- ProxyManager::new, the file
\* the characters a line is made of: whitespace and host characters
LineChars == {" ", "a"}
\* a proxy file line of one host character, without padding
HostLine(h) == <<h>>
HostLines == {HostLine("a"), HostLine("b")}

\* str::trim: leading and trailing whitespace removed
RECURSIVE TrimStart(_)
TrimStart(line) ==
    IF line # <<>> /\ Head(line) = " " THEN TrimStart(Tail(line)) ELSE line
RECURSIVE TrimEnd(_)
TrimEnd(line) ==
    IF line # <<>> /\ line[Len(line)] = " "
    THEN TrimEnd(SubSeq(line, 1, Len(line) - 1)) ELSE line
trim(line) == TrimEnd(TrimStart(line))

\* the String of a list of characters
RECURSIVE Str(_)
Str(chars) == IF chars = <<>> THEN "" ELSE Head(chars) \o Str(Tail(chars))

\* format!("socks5://{}", s.trim())
FormatProxy(line) == "socks5://" \o Str(trim(line))

\* contents.lines().map(|s| format!(..)).filter(|s| !s.is_empty()).collect()
ParseProxies(lines) ==
    SelectSeq([i \in DOMAIN lines |-> FormatProxy(lines[i])], LAMBDA s : s # "")

\* ------------------------------------------------------------------ Init
\* the state ProxyManager::new builds before it calls validate_proxies
\* ------------------------------------------------------------ configuration
DefaultProxyConfig ==
    [file |-> "proxy.txt", switch_delay |-> DefaultSwitchDelay,
     max_retries |-> DefaultMaxRetries,
     request_timeout |-> DefaultRequestTimeout,
     concurrent_validations |-> DefaultConcurrentValidations]

\* a config.toml that sets nothing; proxy_file names a file that exists
DefaultConfig ==
    [base_url |-> "https://clutch.co", proxy_file |-> "proxy.txt",
     max_retries |-> DefaultLoopMaxRetries, retry_delay |-> DefaultRetryDelay,
     proxy_switch_delay |-> DefaultSwitchDelay, start_path |-> "/developers/rust",
     proxy_max_retries |-> DefaultMaxRetries,
     proxy_request_timeout |-> DefaultRequestTimeout,
     proxy_concurrent_validations |-> DefaultConcurrentValidations,
     proxy |-> DefaultProxyConfig]

\* base_url.starts_with("http"), Path::new(&proxy_file).exists(), on the
\* values the configurations below use
StartsWithHttp(url) == url \in {"https://clutch.co", "http://clutch.co"}
PathExists(path) == path = "proxy.txt"

\* Config::validate: the first check that fails, or Ok
validate(cfg) ==
    IF cfg.base_url = "" THEN "MissingField base_url"
    ELSE IF ~StartsWithHttp(cfg.base_url) THEN "InvalidValue base_url"
    ELSE IF cfg.proxy_file # "" /\ ~PathExists(cfg.proxy_file)
         THEN "InvalidValue proxy_file"
    ELSE IF cfg.max_retries = 0 THEN "InvalidValue max_retries"
    ELSE IF cfg.retry_delay = 0 THEN "InvalidValue retry_delay"
    ELSE IF cfg.proxy_switch_delay = 0 THEN "InvalidValue proxy_switch_delay"
    ELSE IF cfg.start_path = "" THEN "InvalidValue start_path"
    ELSE IF cfg.proxy_max_retries = 0 THEN "InvalidValue proxy_max_retries"
    ELSE IF cfg.proxy_request_timeout = 0 THEN "InvalidValue proxy_request_timeout"
    ELSE IF cfg.proxy_concurrent_validations = 0
         THEN "InvalidValue proxy_concurrent_validations"
    ELSE "Ok"

\* the settings the pool reads
get_max_retries(cfg) == cfg.proxy.max_retries
get_request_timeout(cfg) == cfg.proxy.request_timeout
get_concurrent_validations(cfg) == cfg.proxy.concurrent_validations

\* the default configuration with a [proxy] table that sets max_retries and
\* concurrent_validations
ConfigWith(t, n) ==
    [DefaultConfig EXCEPT !.proxy.max_retries = t,
                          !.proxy.concurrent_validations = n]

\* config.toml files: every checked field wrong or right, the [proxy] table
\* with zero, small or default values
Configs ==
    [base_url : {"", "ftp://clutch.co", "https://clutch.co"},
     proxy_file : {"", "missing.txt", "proxy.txt"},
     max_retries : {0, DefaultLoopMaxRetries},
     retry_delay : {0, DefaultRetryDelay},
     proxy_switch_delay : {0, DefaultSwitchDelay},
     start_path : {"", "/developers/rust"},
     proxy_max_retries : {0, DefaultMaxRetries},
     proxy_request_timeout : {0, DefaultRequestTimeout},
     proxy_concurrent_validations : {0, DefaultConcurrentValidations},
     proxy : [file : {"proxy.txt"}, switch_delay : {DefaultSwitchDelay},
              max_retries : {0, 1, DefaultMaxRetries},
              request_timeout : {0, DefaultRequestTimeout},
              concurrent_validations : {0, 1, DefaultConcurrentValidations}]]

\* the pool is constructed from a configuration that from_file accepted
Loaded ==
    /\ validate(config) = "Ok"
    /\ max_retries = get_max_retries(config)
    /\ concurrent_validations = get_concurrent_validations(config)

\* the download loop is not part of the run
NoMain ==
    [pc |-> "off", retry_count |-> 0, proxy_retry_count |-> 0, proxy |-> "",
     page_number |-> 1, status |-> 0, attempts |-> 0, reports |-> 0]

Constructed ==
    /\ working_proxies = <<>>
    /\ dead_proxies = <<>>
    /\ all_stats = <<>>
    /\ proxy_stats = <<>>
    /\ working_lock = NoHolder
    /\ dead_lock = NoHolder
    /\ all_stats_lock = NoHolder
    /\ stats_lock = <<>>
    /\ clock = 0
    /\ vpc = "loop"
    /\ next_candidate = 1
    /\ tasks = {}
    /\ task_state = [i \in DOMAIN proxies |-> "unspawned"]
    /\ probe_result = [i \in DOMAIN proxies |-> "none"]
    /\ pc = [c \in Callers |-> "idle"]
    /\ op_args = [c \in Callers |-> NoArgs]
    /\ to_remove = [c \in Callers |-> <<>>]
    /\ removed_state = [c \in Callers |-> NoState]
    /\ ret = [c \in Callers |-> NoRet]
    /\ report = [c \in Callers |-> NoReport]
    /\ snap = [c \in Callers |-> NoSnap]
    /\ served = <<>>
    /\ exhausted = <<>>
    /\ main = NoMain

\* construction with one candidate per URL or a URL listed twice, and any
\* failure threshold
Init ==
    /\ contents \in [1..Cardinality(Urls) -> HostLines]
    /\ proxies = ParseProxies(contents)
    /\ concurrent_validations = DefaultConcurrentValidations
    /\ max_retries \in 0..MaxThreshold
    /\ config = ConfigWith(max_retries, concurrent_validations)
    /\ Loaded
    /\ budget = [c \in Callers |-> IF c = "c1" THEN MaxOps ELSE 0]
    /\ Constructed

\* the same, with a second caller making one call at any time
InitConcurrent ==
    /\ contents \in [1..Cardinality(Urls) -> HostLines]
    /\ proxies = ParseProxies(contents)
    /\ concurrent_validations = DefaultConcurrentValidations
    /\ max_retries \in 0..MaxThreshold
    /\ config = ConfigWith(max_retries, concurrent_validations)
    /\ Loaded
    /\ budget = [c \in Callers |-> IF c = "c1" THEN MaxConcurrentOps ELSE 1]
    /\ Constructed

\* construction with any candidate list and any concurrency limit
InitValidation ==
    /\ contents \in SeqsUpTo(HostLines, MaxCandidates)
    /\ proxies = ParseProxies(contents)
    /\ concurrent_validations \in 0..MaxConcurrent
    /\ max_retries = DefaultMaxRetries
    /\ config = ConfigWith(max_retries, concurrent_validations)
    /\ Loaded
    /\ budget = [c \in Callers |-> 0]
    /\ Constructed

\* a proxy file of three distinct lines, a threshold up to the default, and a
\* caller that has the calls to fail two proxies out of the pool and ask once
\* more
ScenarioUrls == Urls \cup {"socks5://c"}
ScenarioOps == Cardinality(Urls) * DefaultMaxRetries + 1

InitScenario ==
    /\ contents = <<HostLine("a"), HostLine("b"), HostLine("c")>>
    /\ proxies = ParseProxies(contents)
    /\ concurrent_validations = DefaultConcurrentValidations
    /\ max_retries \in 0..DefaultMaxRetries
    /\ config = ConfigWith(max_retries, concurrent_validations)
    /\ Loaded
    /\ budget = [c \in Callers |-> IF c = "c1" THEN ScenarioOps ELSE 0]
    /\ Constructed

\* a proxy file of two distinct lines, a threshold up to the default, and a
\* caller that has the calls to fail every proxy once and then make MaxOps more
RoundRobinOps == Cardinality(Urls) + MaxOps

InitRoundRobin ==
    /\ contents = <<HostLine("a"), HostLine("b")>>
    /\ proxies = ParseProxies(contents)
    /\ concurrent_validations = DefaultConcurrentValidations
    /\ max_retries \in 0..DefaultMaxRetries
    /\ config = ConfigWith(max_retries, concurrent_validations)
    /\ Loaded
    /\ budget = [c \in Callers |-> IF c = "c1" THEN RoundRobinOps ELSE 0]
    /\ Constructed

\* construction under any configuration that Config::from_file accepts
InitConfig ==
    /\ config \in Configs
    /\ Loaded
    /\ contents = <<HostLine("a"), HostLine("b")>>
    /\ proxies = ParseProxies(contents)
    /\ budget = [c \in Callers |-> 0]
    /\ Constructed

\* calls the download loop can make: two for every pass, and the passes
\* between two saved pages are bounded by the two retry counters
DownloadCalls ==
    2 * MaxPages * ((MaxLoopRetries + 1) * (MaxLoopRetries + 1) + MaxLoopRetries + 2) + 1

\* main with a proxy file of two distinct lines, any threshold, and any
\* accepted number of retries of the download loop
InitDownload ==
    /\ contents = <<HostLine("a"), HostLine("b")>>
    /\ proxies = ParseProxies(contents)
    /\ \E r \in 1..MaxLoopRetries, t \in 0..MaxThreshold :
          config = [ConfigWith(t, DefaultConcurrentValidations) EXCEPT !.max_retries = r]
    /\ Loaded
    /\ budget = [c \in Callers |-> IF c = "c1" THEN DownloadCalls ELSE 0]
    /\ Constructed

\* construction from any proxy file of a few short lines, blank, padded or not
InitParse ==
    /\ contents \in SeqsUpTo(SeqsUpTo(LineChars, MaxLineLen), MaxLines)
    /\ proxies = ParseProxies(contents)
    /\ concurrent_validations = DefaultConcurrentValidations
    /\ max_retries = DefaultMaxRetries
    /\ config = ConfigWith(max_retries, concurrent_validations)
    /\ Loaded
    /\ budget = [c \in Callers |-> 0]
    /\ Constructed

\* ------------------------------------------------- validate_proxies (new)
\* mutant: a probe task takes the working_proxies lock before it probes
SpawnProbe_LocksFirst ==
    /\ vpc = "loop"
    /\ next_candidate <= Len(proxies)
    /\ working_lock = NoHolder
    /\ working_lock' = "probe"
    /\ task_state' = [task_state EXCEPT ![next_candidate] = "probing"]
    /\ tasks' = tasks \cup {next_candidate}
    /\ next_candidate' = next_candidate + 1
    /\ vpc' = IF Cardinality(tasks') >= concurrent_validations
              THEN "drain" ELSE "loop"
    /\ UNCHANGED <<config_vars, served, exhausted, main, pool_vars, dead_lock, all_stats_lock,
                   stats_lock, clock, caller_vars, probe_result>>

\* for proxy in proxies { tasks.push(tokio::spawn(..)); if tasks.len() >= n ..
SpawnProbe ==
    /\ vpc = "loop"
    /\ next_candidate <= Len(proxies)
    /\ task_state' = [task_state EXCEPT ![next_candidate] = "probing"]
    /\ tasks' = tasks \cup {next_candidate}
    /\ next_candidate' = next_candidate + 1
    /\ vpc' = IF Cardinality(tasks') >= concurrent_validations
              THEN "drain" ELSE "loop"
    /\ UNCHANGED <<config_vars, served, exhausted, main, pool_vars, lock_vars, clock, caller_vars,
                   probe_result>>

\* mutant: the final drain starts only on a full batch
LoopExit_FullBatchOnly ==
    /\ vpc = "loop"
    /\ next_candidate > Len(proxies)
    /\ tasks = {} \/ Cardinality(tasks) >= concurrent_validations
    /\ vpc' = "final_drain"
    /\ UNCHANGED <<config_vars, served, exhausted, main, pool_vars, lock_vars, clock, next_candidate,
                   tasks, task_state, caller_vars, probe_result>>

\* mutant: the emptiness check follows the loop without the final drain
LoopExit_NoFinalDrain ==
    /\ vpc = "loop"
    /\ next_candidate > Len(proxies)
    /\ vpc' = "check"
    /\ UNCHANGED <<config_vars, served, exhausted, main, pool_vars, lock_vars, clock, next_candidate,
                   tasks, task_state, caller_vars, probe_result>>

\* the for loop is over
LoopExit ==
    /\ vpc = "loop"
    /\ next_candidate > Len(proxies)
    /\ vpc' = "final_drain"
    /\ UNCHANGED <<config_vars, served, exhausted, main, pool_vars, lock_vars, clock, next_candidate,
                   tasks, task_state, caller_vars, probe_result>>

\* a probe task that has returned Ok(()) / Err(..)
FinishedStates == {"finished_ok", "finished_failed"}

\* tasks.next().await yields a finished task
DrainYield(i) ==
    /\ vpc \in {"drain", "final_drain"}
    /\ i \in tasks
    /\ task_state[i] \in FinishedStates
    /\ tasks' = tasks \ {i}
    /\ probe_result' = [probe_result EXCEPT ![i] = "none"]
    /\ UNCHANGED <<config_vars, served, exhausted, main, pool_vars, lock_vars, clock, vpc,
                   next_candidate, task_state, caller_vars>>

\* tasks.next().await yields None
DrainEnd ==
    /\ vpc \in {"drain", "final_drain"}
    /\ tasks = {}
    /\ vpc' = IF vpc = "drain" THEN "loop" ELSE "check"
    /\ UNCHANGED <<config_vars, served, exhausted, main, pool_vars, lock_vars, clock, next_candidate,
                   tasks, task_state, caller_vars, probe_result>>

\* mutant: any response validates the proxy, whatever its status
ProbeSucceeded_AnyStatus(outcome) == outcome \in {"success", "non200"}

\* Ok(Ok(_)): validate_single_proxy got resp.status == 200 within the timeout
ProbeSucceeded(outcome) == outcome = "success"

\* the probe of task i ends: validate_single_proxy returns, or the timeout fires
ProbeComplete(i, outcome) ==
    /\ task_state[i] = "probing"
    /\ task_state' = [task_state EXCEPT ![i] =
                        IF ProbeSucceeded(outcome) THEN "probe_ok" ELSE "probe_failed"]
    /\ probe_result' = [probe_result EXCEPT ![i] = outcome]
    /\ UNCHANGED <<config_vars, served, exhausted, main, pool_vars, lock_vars, clock, vpc,
                   next_candidate, tasks, caller_vars>>

\* the response to a probe arrives after timeout() has dropped the probe's
\* future: no code of the task is left to see it
LateResponse(i) ==
    /\ probe_result[i] = "timeout"
    /\ probe_result' = [probe_result EXCEPT ![i] = "late_response"]
    /\ UNCHANGED <<config_vars, served, exhausted, main, pool_vars, lock_vars, clock, vpc,
                   next_candidate, tasks, task_state, caller_vars>>

\* Ok(_) arm: fresh stats, working_proxies.lock().await.insert(..)
InsertWorking(i, t) ==
    /\ task_state[i] = "probe_ok"
    /\ working_lock = NoHolder
    /\ t \in NowValues
    /\ LET url == proxies[i]
           kept == {u \in DOMAIN working_proxies : u # url}
           live == {working_proxies[u].stats : u \in kept}
       IN /\ working_proxies' =
                [u \in kept \cup {url} |->
                    IF u = url
                    THEN [url |-> url, failures |-> 0, last_used |-> t, stats |-> i]
                    ELSE working_proxies[u]]
          \* a replaced ProxyState is dropped together with its stats
          /\ proxy_stats' =
                [k \in live \cup {i} |->
                    IF k = i THEN set_validation_status(NewStats, "success")
                    ELSE proxy_stats[k]]
          /\ stats_lock' = [k \in live \cup {i} |-> NoHolder]
    /\ clock' = t
    /\ task_state' = [task_state EXCEPT ![i] = "finished_ok"]
    /\ UNCHANGED <<config_vars, served, exhausted, main, dead_proxies, all_stats, working_lock,
                   dead_lock, all_stats_lock, vpc, next_candidate, tasks,
                   caller_vars, probe_result>>

\* Err arms: dead_proxies.lock().await.push(proxy.clone())
PushDead(i) ==
    /\ task_state[i] = "probe_failed"
    /\ dead_lock = NoHolder
    /\ dead_proxies' = Append(dead_proxies, proxies[i])
    /\ task_state' = [task_state EXCEPT ![i] = "finished_failed"]
    /\ UNCHANGED <<config_vars, served, exhausted, main, working_proxies, all_stats, proxy_stats,
                   lock_vars, clock, vpc, next_candidate, tasks, caller_vars,
                   probe_result>>

\* mutant: construction fails as soon as one probe has failed
CheckWorking_AnyDead ==
    /\ vpc = "check"
    /\ working_lock = NoHolder
    /\ vpc' = IF Cardinality(DOMAIN working_proxies) = 0 \/ dead_proxies # <<>>
              THEN "failed" ELSE "ready"
    /\ UNCHANGED <<config_vars, served, exhausted, main, pool_vars, lock_vars, clock, next_candidate,
                   tasks, task_state, caller_vars, probe_result>>

\* let working_count = ..len(); if working_count == 0 { return Err(NoWorkingProxies) }
CheckWorking ==
    /\ vpc = "check"
    /\ working_lock = NoHolder
    /\ vpc' = IF Cardinality(DOMAIN working_proxies) = 0 THEN "failed" ELSE "ready"
    /\ UNCHANGED <<config_vars, served, exhausted, main, pool_vars, lock_vars, clock, next_candidate,
                   tasks, task_state, caller_vars, probe_result>>

Validate ==
    \/ SpawnProbe
    \/ LoopExit
    \/ \E i \in DOMAIN proxies : DrainYield(i)
    \/ DrainEnd
    \/ \E i \in DOMAIN proxies, o \in ProbeOutcomes : ProbeComplete(i, o)
    \/ \E i \in DOMAIN proxies : LateResponse(i)
    \/ \E i \in DOMAIN proxies, t \in 0..MaxClock : InsertWorking(i, t)
    \/ \E i \in DOMAIN proxies : PushDead(i)
    \/ CheckWorking

\* ------------------------------------------------------- calls on the pool
GetProxyArgs == {NoArgs}
MarkSuccessArgs ==
    {[proxy_url |-> u, url |-> "/p1", error |-> "", status_code |-> SomeCode(200)] :
        u \in Urls}
MarkFailureArgs ==
    {[proxy_url |-> u, url |-> "/p1", error |-> "403 Forbidden",
      status_code |-> SomeCode(403)] : u \in Urls}
    \cup {[proxy_url |-> u, url |-> "/p2", error |-> "Request failed",
           status_code |-> NoneCode] : u \in Urls}

FirstLabel(op) ==
    CASE op = "get_proxy" -> "gp_lock"
      [] op = "mark_proxy_success" -> "ms_lock"
      [] op = "mark_proxy_failure" -> "mf_lock"
      [] op = "print_report" -> "pr_lock"

\* a caller enters one of the four public operations on a constructed pool
\* the call leaves a run of get_proxy calls unbroken: another get_proxy, or a
\* success report for the proxy the last one returned
InRun(op, a) ==
    \/ op = "get_proxy"
    \/ /\ op = "mark_proxy_success"
       /\ served # <<>>
       /\ a.proxy_url = served[Len(served)].url

StartCall(c, op, a) ==
    /\ vpc = "ready"
    /\ pc[c] = "idle"
    /\ budget[c] > 0
    /\ budget' = [budget EXCEPT ![c] = @ - 1]
    /\ pc' = [pc EXCEPT ![c] = FirstLabel(op)]
    /\ op_args' = [op_args EXCEPT ![c] = a]
    /\ ret' = [ret EXCEPT ![c] = NoRet]
    /\ report' = [report EXCEPT ![c] = NoReport]
    /\ served' = IF InRun(op, a) THEN served ELSE <<>>
    /\ UNCHANGED exhausted
    /\ UNCHANGED <<config_vars, pool_vars, lock_vars, clock, validation_vars,
                   to_remove, removed_state, snap>>

\* a call by a caller that is not the download loop
Call(c, op, a) == StartCall(c, op, a) /\ UNCHANGED main

\* mutant: the lock does not exclude a second holder
LockWorking_NoExclusion(c) ==
    /\ pc[c] \in {"gp_lock", "ms_lock", "mf_lock", "pr_lock"}
    /\ working_lock' = c
    /\ snap' = [snap EXCEPT ![c] = Pool]
    /\ pc' = [pc EXCEPT ![c] =
                CASE pc[c] = "gp_lock" -> "gp_scan"
                  [] pc[c] = "ms_lock" -> "ms_get"
                  [] pc[c] = "mf_lock" -> "mf_get"
                  [] pc[c] = "pr_lock" -> "pr_lock_dead"]
    /\ UNCHANGED <<config_vars, served, exhausted, main, pool_vars, dead_lock, all_stats_lock,
                   stats_lock, clock, validation_vars, op_args, to_remove,
                   removed_state, ret, report, budget>>

\* let mut proxies = self.working_proxies.lock().await  (first line of each call)
LockWorking(c) ==
    /\ pc[c] \in {"gp_lock", "ms_lock", "mf_lock", "pr_lock"}
    /\ working_lock = NoHolder
    /\ working_lock' = c
    /\ snap' = [snap EXCEPT ![c] = Pool]
    /\ pc' = [pc EXCEPT ![c] =
                CASE pc[c] = "gp_lock" -> "gp_scan"
                  [] pc[c] = "ms_lock" -> "ms_get"
                  [] pc[c] = "mf_lock" -> "mf_get"
                  [] pc[c] = "pr_lock" -> "pr_lock_dead"]
    /\ UNCHANGED <<config_vars, served, exhausted, main, pool_vars, dead_lock, all_stats_lock,
                   stats_lock, clock, validation_vars, op_args, to_remove,
                   removed_state, ret, report, budget>>

\* ---------------------------------------------------------------- get_proxy
\* mutant: the sweep evicts one failure early
GpScan_OneEarly(c) ==
    /\ pc[c] = "gp_scan"
    /\ \E order \in IterOrders({u \in DOMAIN working_proxies :
                                  working_proxies[u].failures + 1 >= max_retries}) :
          /\ to_remove' = [to_remove EXCEPT ![c] = order]
          /\ pc' = [pc EXCEPT ![c] = IF order # <<>> THEN "gp_lock_dead"
                                     ELSE "gp_check"]
    /\ UNCHANGED <<config_vars, served, exhausted, main, pool_vars, lock_vars, clock, validation_vars,
                   op_args, removed_state, ret, report, budget, snap>>

\* for (url, state) in proxies.iter() { if state.failures >= max_retries { to_remove.push } }
GpScan(c) ==
    /\ pc[c] = "gp_scan"
    /\ \E order \in IterOrders({u \in DOMAIN working_proxies :
                                  working_proxies[u].failures >= max_retries}) :
          /\ to_remove' = [to_remove EXCEPT ![c] = order]
          /\ pc' = [pc EXCEPT ![c] = IF order # <<>> THEN "gp_lock_dead"
                                     ELSE "gp_check"]
    /\ UNCHANGED <<config_vars, served, exhausted, main, pool_vars, lock_vars, clock, validation_vars,
                   op_args, removed_state, ret, report, budget, snap>>

\* let mut dead = self.dead_proxies.lock().await
GpLockDead(c) ==
    /\ pc[c] = "gp_lock_dead"
    /\ dead_lock = NoHolder
    /\ dead_lock' = c
    /\ pc' = [pc EXCEPT ![c] = "gp_remove"]
    /\ UNCHANGED <<config_vars, served, exhausted, main, pool_vars, working_lock, all_stats_lock,
                   stats_lock, clock, validation_vars, op_args, to_remove,
                   removed_state, ret, report, budget, snap>>

\* proxies.remove(url): the ProxyState is dropped, and its stats with it
GpRemove(c) ==
    /\ pc[c] = "gp_remove"
    /\ to_remove[c] # <<>>
    /\ LET url == Head(to_remove[c])
           kept == DOMAIN working_proxies \ {url}
           live == DOMAIN proxy_stats \ {working_proxies[url].stats}
       IN /\ working_proxies' = Restrict(working_proxies, kept)
          /\ proxy_stats' = Restrict(proxy_stats, live)
          /\ stats_lock' = Restrict(stats_lock, live)
    /\ pc' = [pc EXCEPT ![c] = "gp_push"]
    /\ UNCHANGED <<config_vars, served, exhausted, main, dead_proxies, all_stats, working_lock,
                   dead_lock, all_stats_lock, clock, validation_vars, op_args,
                   to_remove, removed_state, ret, report, budget, snap>>

\* dead.push(url.clone())
GpPush(c) ==
    /\ pc[c] = "gp_push"
    /\ dead_proxies' = Append(dead_proxies, Head(to_remove[c]))
    /\ to_remove' = [to_remove EXCEPT ![c] = Tail(@)]
    /\ pc' = [pc EXCEPT ![c] = IF Tail(to_remove[c]) # <<>> THEN "gp_remove"
                               ELSE "gp_unlock_dead"]
    /\ UNCHANGED <<config_vars, served, exhausted, main, working_proxies, all_stats, proxy_stats,
                   lock_vars, clock, validation_vars, op_args, removed_state,
                   ret, report, budget, snap>>

\* end of the if block: the dead guard is dropped
\* mutant: the guard of dead_proxies taken for the sweep is kept
GpUnlockDead_GuardKept(c) ==
    /\ pc[c] = "gp_unlock_dead"
    /\ pc' = [pc EXCEPT ![c] = "gp_check"]
    /\ UNCHANGED <<config_vars, served, exhausted, main, pool_vars, lock_vars, clock,
                   validation_vars, op_args, to_remove, removed_state, ret,
                   report, budget, snap>>

\* } end of the block that holds the guard `dead`
GpUnlockDead(c) ==
    /\ pc[c] = "gp_unlock_dead"
    /\ dead_lock' = NoHolder
    /\ pc' = [pc EXCEPT ![c] = "gp_check"]
    /\ UNCHANGED <<config_vars, served, exhausted, main, pool_vars, working_lock, all_stats_lock,
                   stats_lock, clock, validation_vars, op_args, to_remove,
                   removed_state, ret, report, budget, snap>>

\* if proxies.is_empty()
GpCheck(c) ==
    /\ pc[c] = "gp_check"
    /\ pc' = [pc EXCEPT ![c] = IF DOMAIN working_proxies = {} THEN "gp_exhausted"
                               ELSE "gp_select"]
    /\ UNCHANGED <<config_vars, served, exhausted, main, pool_vars, lock_vars, clock, validation_vars,
                   op_args, to_remove, removed_state, ret, report, budget, snap>>

\* mutant: the error lists the evicted proxies only, not those validation
\* put into dead_proxies
ExhaustedError_EvictedOnly(dead) ==
    LET evicted == SelectSeq(dead, LAMBDA u : u \in DOMAIN all_stats) IN
    IF evicted # <<>>
    THEN [kind |-> "AllProxiesExhausted", url |-> "",
          failed_proxies |-> [i \in DOMAIN evicted |-> <<evicted[i], "Max retries exceeded">>]]
    ELSE [kind |-> "NoWorkingProxies", url |-> "", failed_proxies |-> <<>>]

\* the error get_proxy returns on an empty working set
ExhaustedError(dead) ==
    IF dead # <<>>
    THEN [kind |-> "AllProxiesExhausted", url |-> "",
          failed_proxies |-> [i \in DOMAIN dead |-> <<dead[i], "Max retries exceeded">>]]
    ELSE [kind |-> "NoWorkingProxies", url |-> "", failed_proxies |-> <<>>]

\* let dead_proxies = self.dead_proxies.lock().await; ... return Err(..)
GpExhausted(c) ==
    /\ pc[c] = "gp_exhausted"
    /\ dead_lock = NoHolder
    /\ ret' = [ret EXCEPT ![c] = ExhaustedError(dead_proxies)]
    /\ exhausted' = Append(exhausted, ExhaustedError(dead_proxies))
    /\ working_lock' = NoHolder
    /\ pc' = [pc EXCEPT ![c] = "idle"]
    /\ op_args' = [op_args EXCEPT ![c] = NoArgs]
    /\ snap' = [snap EXCEPT ![c] = NoSnap]
    /\ UNCHANGED <<config_vars, served, main, pool_vars, dead_lock, all_stats_lock,
                   stats_lock, clock, validation_vars, to_remove,
                   removed_state, report, budget>>

\* mutant: the comparator looks at last_used alone
SelectLess_LruOnly(a, b) == a.last_used < b.last_used

\* the comparator of min_by: failures first, then last_used; TRUE when a < b
SelectLess(a, b) ==
    IF a.failures = b.failures THEN a.last_used < b.last_used
    ELSE a.failures < b.failures

\* Iterator::min_by over the entries in iteration order: the first least one
RECURSIVE MinBy(_, _, _, _)
MinBy(map, order, i, best) ==
    IF i > Len(order) THEN best
    ELSE MinBy(map, order, i + 1,
               IF SelectLess(map[order[i]], map[best]) THEN order[i] ELSE best)

\* mutant: selecting a proxy also clears its failures
Touch_ResetFailures(state, t) == [state EXCEPT !.last_used = t, !.failures = 0]

\* mutant: a selection leaves last_used as it was
Touch_Stale(state, t) == state

\* state.last_used = Instant::now()
Touch(state, t) == [state EXCEPT !.last_used = t]

\* what a get_proxy that reads the clock at t and returns url found: the
\* number of working proxies, whether they all had one failure count, whether
\* that count was 0, whether their timestamps were pairwise distinct and
\* earlier than t
Served(url, t) ==
    LET w == working_proxies IN
    [url |-> url,
     k |-> Cardinality(DOMAIN w),
     same |-> \A u, v \in DOMAIN w : w[u].failures = w[v].failures,
     zero |-> \A u \in DOMAIN w : w[u].failures = 0,
     increasing |-> /\ \A u, v \in DOMAIN w :
                          w[u].last_used = w[v].last_used => u = v
                    /\ \A u \in DOMAIN w : w[u].last_used < t]

\* proxies.iter_mut().min_by(..).map(|(_, state)| { last_used = now; url })
GpSelect(c, t) ==
    /\ pc[c] = "gp_select"
    /\ t \in NowValues
    /\ \E order \in IterOrders(DOMAIN working_proxies) :
          LET key == MinBy(working_proxies, order, 2, order[1]) IN
          /\ working_proxies' = [working_proxies EXCEPT ![key] = Touch(@, t)]
          /\ ret' = [ret EXCEPT ![c] =
                        [kind |-> "Ok", url |-> working_proxies[key].url,
                         failed_proxies |-> <<>>]]
          /\ served' = Append(served, Served(working_proxies[key].url, t))
          /\ UNCHANGED <<exhausted, main>>
    /\ clock' = t
    /\ working_lock' = NoHolder
    /\ pc' = [pc EXCEPT ![c] = "idle"]
    /\ op_args' = [op_args EXCEPT ![c] = NoArgs]
    /\ snap' = [snap EXCEPT ![c] = NoSnap]
    /\ UNCHANGED <<config_vars, dead_proxies, all_stats, proxy_stats,
                   dead_lock, all_stats_lock, stats_lock, validation_vars,
                   to_remove, removed_state, report, budget>>

GetProxy(c) ==
    \/ GpScan(c)
    \/ GpLockDead(c)
    \/ GpRemove(c)
    \/ GpPush(c)
    \/ GpUnlockDead(c)
    \/ GpCheck(c)
    \/ GpExhausted(c)
    \/ \E t \in 0..MaxClock : GpSelect(c, t)

OkUnit == [kind |-> "Ok", url |-> "", failed_proxies |-> <<>>]

\* ------------------------------------------------------- mark_proxy_success
\* mutant: a success for an evicted proxy is recorded in its archived stats
MsGet_RecordArchived(c, t) ==
    /\ pc[c] = "ms_get"
    /\ t \in NowValues
    /\ LET url == op_args[c].proxy_url IN
       IF url \in DOMAIN working_proxies
       THEN /\ working_proxies' = [working_proxies EXCEPT ![url].failures = 0,
                                                          ![url].last_used = t]
            /\ clock' = t
            /\ pc' = [pc EXCEPT ![c] = "ms_stats"]
            /\ UNCHANGED proxy_stats
       ELSE /\ t = clock
            /\ pc' = [pc EXCEPT ![c] = "ms_return"]
            /\ proxy_stats' =
                  IF url \in DOMAIN all_stats
                  THEN [proxy_stats EXCEPT ![all_stats[url]] =
                           record_success(@, op_args[c].url, op_args[c].status_code.code)]
                  ELSE proxy_stats
            /\ UNCHANGED <<working_proxies, clock>>
    /\ UNCHANGED <<config_vars, served, exhausted, main, dead_proxies, all_stats, lock_vars,
                   validation_vars, op_args, to_remove, removed_state, ret,
                   report, budget, snap>>

\* if let Some(state) = proxies.get_mut(proxy_url) { failures = 0; last_used = now
MsGet(c, t) ==
    /\ pc[c] = "ms_get"
    /\ t \in NowValues
    /\ LET url == op_args[c].proxy_url IN
       IF url \in DOMAIN working_proxies
       THEN /\ working_proxies' = [working_proxies EXCEPT ![url].failures = 0,
                                                          ![url].last_used = t]
            /\ clock' = t
            /\ pc' = [pc EXCEPT ![c] = "ms_stats"]
       ELSE /\ t = clock
            /\ pc' = [pc EXCEPT ![c] = "ms_return"]
            /\ UNCHANGED <<working_proxies, clock>>
    /\ UNCHANGED <<config_vars, served, exhausted, main, dead_proxies, all_stats, proxy_stats,
                   lock_vars, validation_vars, op_args, to_remove,
                   removed_state, ret, report, budget, snap>>

\* let mut stats = state.stats.lock().await; stats.record_success(url, status_code)
MsRecord(c) ==
    /\ pc[c] = "ms_stats"
    /\ LET id == working_proxies[op_args[c].proxy_url].stats IN
       /\ stats_lock[id] = NoHolder
       /\ stats_lock' = [stats_lock EXCEPT ![id] = c]
       /\ proxy_stats' = [proxy_stats EXCEPT ![id] =
              record_success(@, op_args[c].url, op_args[c].status_code.code)]
    /\ pc' = [pc EXCEPT ![c] = "ms_return"]
    /\ UNCHANGED <<config_vars, served, exhausted, main, working_proxies, dead_proxies, all_stats,
                   working_lock, dead_lock, all_stats_lock, clock,
                   validation_vars, op_args, to_remove, removed_state, ret,
                   report, budget, snap>>

\* Ok(()): the stats guard and the working guard are dropped
MsReturn(c) ==
    /\ pc[c] = "ms_return"
    /\ stats_lock' = [k \in DOMAIN stats_lock |->
                        IF stats_lock[k] = c THEN NoHolder ELSE stats_lock[k]]
    /\ working_lock' = NoHolder
    /\ ret' = [ret EXCEPT ![c] = OkUnit]
    /\ pc' = [pc EXCEPT ![c] = "idle"]
    /\ op_args' = [op_args EXCEPT ![c] = NoArgs]
    /\ snap' = [snap EXCEPT ![c] = NoSnap]
    /\ UNCHANGED <<config_vars, served, exhausted, main, pool_vars, dead_lock, all_stats_lock, clock,
                   validation_vars, to_remove, removed_state, report,
                   budget>>

MarkProxySuccess(c) ==
    \/ \E t \in 0..MaxClock : MsGet(c, t)
    \/ MsRecord(c)
    \/ MsReturn(c)

\* ------------------------------------------------------- mark_proxy_failure
\* mutant: a failure reported for an absent proxy still goes on to the dead
\* list
MfGet_AbsentPush(c) ==
    /\ pc[c] = "mf_get"
    /\ LET url == op_args[c].proxy_url IN
       IF url \in DOMAIN working_proxies
       THEN /\ working_proxies' = [working_proxies EXCEPT ![url].failures = @ + 1]
            /\ pc' = [pc EXCEPT ![c] = "mf_stats"]
       ELSE /\ pc' = [pc EXCEPT ![c] = "mf_push"]
            /\ UNCHANGED working_proxies
    /\ UNCHANGED <<config_vars, served, exhausted, main, dead_proxies, all_stats, proxy_stats,
                   lock_vars, clock, validation_vars, op_args, to_remove,
                   removed_state, ret, report, budget, snap>>

\* mutant: a failure reported for an evicted proxy is recorded in its
\* archived stats
MfGet_AbsentRecord(c) ==
    /\ pc[c] = "mf_get"
    /\ LET url == op_args[c].proxy_url IN
       IF url \in DOMAIN working_proxies
       THEN /\ working_proxies' = [working_proxies EXCEPT ![url].failures = @ + 1]
            /\ pc' = [pc EXCEPT ![c] = "mf_stats"]
            /\ UNCHANGED proxy_stats
       ELSE /\ pc' = [pc EXCEPT ![c] = "mf_return"]
            /\ proxy_stats' =
                  IF url \in DOMAIN all_stats
                  THEN [proxy_stats EXCEPT ![all_stats[url]] =
                          record_failure(@, op_args[c].url, op_args[c].error,
                                         op_args[c].status_code)]
                  ELSE proxy_stats
            /\ UNCHANGED working_proxies
    /\ UNCHANGED <<config_vars, served, exhausted, main, dead_proxies, all_stats,
                   lock_vars, clock, validation_vars, op_args, to_remove,
                   removed_state, ret, report, budget, snap>>

\* mutant: a reported failure also refreshes last_used
MfGet_Refresh(c) ==
    /\ pc[c] = "mf_get"
    /\ LET url == op_args[c].proxy_url IN
       IF url \in DOMAIN working_proxies
       THEN /\ working_proxies' = [working_proxies EXCEPT ![url].failures = @ + 1,
                                                          ![url].last_used = clock]
            /\ pc' = [pc EXCEPT ![c] = "mf_stats"]
       ELSE /\ pc' = [pc EXCEPT ![c] = "mf_return"]
            /\ UNCHANGED working_proxies
    /\ UNCHANGED <<config_vars, served, exhausted, main, dead_proxies, all_stats, proxy_stats,
                   lock_vars, clock, validation_vars, op_args, to_remove,
                   removed_state, ret, report, budget, snap>>

\* if let Some(state) = proxies.get_mut(proxy_url) { state.failures += 1;
MfGet(c) ==
    /\ pc[c] = "mf_get"
    /\ LET url == op_args[c].proxy_url IN
       IF url \in DOMAIN working_proxies
       THEN /\ working_proxies' = [working_proxies EXCEPT ![url].failures = @ + 1]
            /\ pc' = [pc EXCEPT ![c] = "mf_stats"]
       ELSE /\ pc' = [pc EXCEPT ![c] = "mf_return"]
            /\ UNCHANGED working_proxies
    /\ UNCHANGED <<config_vars, served, exhausted, main, dead_proxies, all_stats, proxy_stats,
                   lock_vars, clock, validation_vars, op_args, to_remove,
                   removed_state, ret, report, budget, snap>>

\* mutant: mark_proxy_failure leaves every eviction to the sweep
ReachedThreshold_Never(failures) == FALSE

\* mutant: the threshold test written with > instead of >=
ReachedThreshold_Strict(failures) == failures > max_retries

\* state.failures >= max_retries
ReachedThreshold(failures) == failures >= max_retries

\* state.stats.lock().await.record_failure(..); if state.failures >= max_retries
MfRecord(c) ==
    /\ pc[c] = "mf_stats"
    /\ LET url == op_args[c].proxy_url
           id == working_proxies[url].stats
       IN /\ stats_lock[id] = NoHolder
          /\ proxy_stats' = [proxy_stats EXCEPT ![id] =
                 record_failure(@, op_args[c].url, op_args[c].error,
                                op_args[c].status_code)]
          /\ pc' = [pc EXCEPT ![c] =
                 IF ReachedThreshold(working_proxies[url].failures)
                 THEN "mf_remove" ELSE "mf_return"]
    /\ UNCHANGED <<config_vars, served, exhausted, main, working_proxies, dead_proxies, all_stats,
                   lock_vars, clock, validation_vars, op_args, to_remove,
                   removed_state, ret, report, budget, snap>>

\* mutant: the working guard is dropped as soon as the entry is removed
MfRemove_Unlock(c) ==
    /\ pc[c] = "mf_remove"
    /\ LET url == op_args[c].proxy_url IN
       /\ removed_state' = [removed_state EXCEPT ![c] = working_proxies[url]]
       /\ working_proxies' = Restrict(working_proxies, DOMAIN working_proxies \ {url})
    /\ working_lock' = NoHolder
    /\ pc' = [pc EXCEPT ![c] = "mf_push"]
    /\ UNCHANGED <<config_vars, served, exhausted, main, dead_proxies, all_stats, proxy_stats,
                   dead_lock, all_stats_lock, stats_lock, clock,
                   validation_vars, op_args, to_remove, ret, report, budget, snap>>

\* let removed_state = proxies.remove(proxy_url).unwrap()
MfRemove(c) ==
    /\ pc[c] = "mf_remove"
    /\ LET url == op_args[c].proxy_url IN
       /\ removed_state' = [removed_state EXCEPT ![c] = working_proxies[url]]
       /\ working_proxies' = Restrict(working_proxies, DOMAIN working_proxies \ {url})
    /\ pc' = [pc EXCEPT ![c] = "mf_push"]
    /\ UNCHANGED <<config_vars, served, exhausted, main, dead_proxies, all_stats, proxy_stats,
                   lock_vars, clock, validation_vars, op_args, to_remove, ret,
                   report, budget, snap>>

\* mutant: the eviction does not record the proxy in dead_proxies
MfPush_Skip(c) ==
    /\ pc[c] = "mf_push"
    /\ dead_lock = NoHolder
    /\ pc' = [pc EXCEPT ![c] = "mf_archive"]
    /\ UNCHANGED <<config_vars, served, exhausted, main, pool_vars, lock_vars, clock, validation_vars,
                   op_args, to_remove, removed_state, ret, report, budget, snap>>

\* self.dead_proxies.lock().await.push(proxy_url.to_string())
MfPush(c) ==
    /\ pc[c] = "mf_push"
    /\ dead_lock = NoHolder
    /\ dead_proxies' = Append(dead_proxies, op_args[c].proxy_url)
    /\ pc' = [pc EXCEPT ![c] = "mf_archive"]
    /\ UNCHANGED <<config_vars, served, exhausted, main, working_proxies, all_stats, proxy_stats,
                   lock_vars, clock, validation_vars, op_args, to_remove,
                   removed_state, ret, report, budget, snap>>

\* let mut all_stats = self.all_stats.lock().await; all_stats.insert(url, stats)
MfArchive(c) ==
    /\ pc[c] = "mf_archive"
    /\ all_stats_lock = NoHolder
    /\ all_stats_lock' = c
    /\ LET url == op_args[c].proxy_url IN
       all_stats' = [u \in DOMAIN all_stats \cup {url} |->
                        IF u = url THEN removed_state[c].stats ELSE all_stats[u]]
    /\ pc' = [pc EXCEPT ![c] = "mf_return"]
    /\ UNCHANGED <<config_vars, served, exhausted, main, working_proxies, dead_proxies, proxy_stats,
                   working_lock, dead_lock, stats_lock, clock, validation_vars,
                   op_args, to_remove, removed_state, ret, report, budget, snap>>

\* Ok(()): the all_stats guard (if taken) and the working guard are dropped
MfReturn(c) ==
    /\ pc[c] = "mf_return"
    /\ all_stats_lock' = IF all_stats_lock = c THEN NoHolder ELSE all_stats_lock
    /\ working_lock' = NoHolder
    /\ removed_state' = [removed_state EXCEPT ![c] = NoState]
    /\ ret' = [ret EXCEPT ![c] = OkUnit]
    /\ pc' = [pc EXCEPT ![c] = "idle"]
    /\ op_args' = [op_args EXCEPT ![c] = NoArgs]
    /\ snap' = [snap EXCEPT ![c] = NoSnap]
    /\ UNCHANGED <<config_vars, served, exhausted, main, pool_vars, dead_lock, stats_lock, clock,
                   validation_vars, to_remove, report, budget>>

MarkProxyFailure(c) ==
    \/ MfGet(c)
    \/ MfRecord(c)
    \/ MfRemove(c)
    \/ MfPush(c)
    \/ MfArchive(c)
    \/ MfReturn(c)

\* ------------------------------------------------------------- print_report
\* let dead_proxies = self.dead_proxies.lock().await
PrLockDead(c) ==
    /\ pc[c] = "pr_lock_dead"
    /\ dead_lock = NoHolder
    /\ dead_lock' = c
    /\ pc' = [pc EXCEPT ![c] = "pr_lock_all_stats"]
    /\ UNCHANGED <<config_vars, served, exhausted, main, pool_vars, working_lock, all_stats_lock,
                   stats_lock, clock, validation_vars, op_args, to_remove,
                   removed_state, ret, report, budget, snap>>

\* let all_stats = self.all_stats.lock().await
PrLockAllStats(c) ==
    /\ pc[c] = "pr_lock_all_stats"
    /\ all_stats_lock = NoHolder
    /\ all_stats_lock' = c
    /\ pc' = [pc EXCEPT ![c] = "pr_print"]
    /\ UNCHANGED <<config_vars, served, exhausted, main, pool_vars, working_lock, dead_lock,
                   stats_lock, clock, validation_vars, op_args, to_remove,
                   removed_state, ret, report, budget, snap>>

\* mutant: reading a record for the report counts as a request
PrPrint_CountsRead(c) ==
    /\ pc[c] = "pr_print"
    /\ \A k \in DOMAIN stats_lock : stats_lock[k] = NoHolder
    /\ report' = [report EXCEPT ![c] =
                    [working |-> Cardinality(DOMAIN working_proxies),
                     dead |-> Len(dead_proxies)]]
    /\ proxy_stats' = [k \in DOMAIN proxy_stats |->
                          [proxy_stats[k] EXCEPT !.total_requests = @ + 1]]
    /\ pc' = [pc EXCEPT ![c] = "pr_return"]
    /\ UNCHANGED <<config_vars, served, exhausted, main, working_proxies, dead_proxies, all_stats,
                   lock_vars, clock, validation_vars, op_args, to_remove,
                   removed_state, ret, budget, snap>>

\* mutant: "Failed Proxies" is the size of the archive
PrPrint_CountsArchive(c) ==
    /\ pc[c] = "pr_print"
    /\ \A k \in DOMAIN stats_lock : stats_lock[k] = NoHolder
    /\ report' = [report EXCEPT ![c] =
                    [working |-> Cardinality(DOMAIN working_proxies),
                     dead |-> Cardinality(DOMAIN all_stats)]]
    /\ pc' = [pc EXCEPT ![c] = "pr_return"]
    /\ UNCHANGED <<config_vars, served, exhausted, main, pool_vars, lock_vars, clock, validation_vars,
                   op_args, to_remove, removed_state, ret, budget, snap>>

\* "Working Proxies: {}", "Failed Proxies: {}", then every stats record is read
PrPrint(c) ==
    /\ pc[c] = "pr_print"
    /\ \A k \in DOMAIN stats_lock : stats_lock[k] = NoHolder
    /\ report' = [report EXCEPT ![c] =
                    [working |-> Cardinality(DOMAIN working_proxies),
                     dead |-> Len(dead_proxies)]]
    /\ pc' = [pc EXCEPT ![c] = "pr_return"]
    /\ UNCHANGED <<config_vars, served, exhausted, main, pool_vars, lock_vars, clock, validation_vars,
                   op_args, to_remove, removed_state, ret, budget, snap>>

\* mutant: the report empties dead_proxies once it is printed
PrReturn_ClearsDead(c) ==
    /\ pc[c] = "pr_return"
    /\ dead_proxies' = <<>>
    /\ working_lock' = NoHolder
    /\ dead_lock' = NoHolder
    /\ all_stats_lock' = NoHolder
    /\ ret' = [ret EXCEPT ![c] = OkUnit]
    /\ pc' = [pc EXCEPT ![c] = "idle"]
    /\ op_args' = [op_args EXCEPT ![c] = NoArgs]
    /\ snap' = [snap EXCEPT ![c] = NoSnap]
    /\ UNCHANGED <<config_vars, served, exhausted, main, working_proxies, all_stats,
                   proxy_stats, stats_lock, clock, validation_vars,
                   to_remove, removed_state, report, budget>>

\* the three guards are dropped
PrReturn(c) ==
    /\ pc[c] = "pr_return"
    /\ working_lock' = NoHolder
    /\ dead_lock' = NoHolder
    /\ all_stats_lock' = NoHolder
    /\ ret' = [ret EXCEPT ![c] = OkUnit]
    /\ pc' = [pc EXCEPT ![c] = "idle"]
    /\ op_args' = [op_args EXCEPT ![c] = NoArgs]
    /\ snap' = [snap EXCEPT ![c] = NoSnap]
    /\ UNCHANGED <<config_vars, served, exhausted, main, pool_vars, stats_lock, clock, validation_vars,
                   to_remove, removed_state, report, budget>>

PrintReport(c) ==
    \/ PrLockDead(c)
    \/ PrLockAllStats(c)
    \/ PrPrint(c)
    \/ PrReturn(c)

Calls ==
    \E c \in Callers :
        \/ \E a \in GetProxyArgs : Call(c, "get_proxy", a)
        \/ \E a \in MarkSuccessArgs : Call(c, "mark_proxy_success", a)
        \/ \E a \in MarkFailureArgs : Call(c, "mark_proxy_failure", a)
        \/ Call(c, "print_report", NoArgs)
        \/ LockWorking(c)
        \/ GetProxy(c)
        \/ MarkProxySuccess(c)
        \/ MarkProxyFailure(c)
        \/ PrintReport(c)

Next == Validate \/ Calls

Spec == Init /\ [][Next]_vars

SpecConcurrent == InitConcurrent /\ [][Next]_vars

SpecValidation == InitValidation /\ [][Validate]_vars

SpecParse == InitParse /\ [][Validate]_vars

SpecConfig == InitConfig /\ [][Validate]_vars

\* ------------------------------------------------ main: the download loop
\* what the server or the network does with a request: no response, or a
\* response with a status
RequestOutcomes ==
    {[sent |-> FALSE, status |-> 0]}
    \cup {[sent |-> TRUE, status |-> st] : st \in {200, 403}}

\* StatusCode::is_success
is_success(status) == status >= 200 /\ status <= 299

\* Client::request: Err for a transport error and for every status that is
\* not 2xx, Ok(ClientResponse) otherwise; error is format!("{}", e)
request(outcome) ==
    IF ~outcome.sent
    THEN [ok |-> FALSE, status |-> 0, error |-> "Client error: Request failed: error sending request"]
    ELSE IF ~is_success(outcome.status)
    THEN [ok |-> FALSE, status |-> 0,
          error |-> "Client error: Response error " \o ToString(outcome.status)]
    ELSE [ok |-> TRUE, status |-> outcome.status, error |-> ""]

\* current_path of the page being fetched
CurrentPath == "/p" \o ToString(main.page_number)

\* the pool call the loop makes for the result of client.get
ReportArgs(res) ==
    IF res.ok /\ res.status = 403
    THEN [proxy_url |-> main.proxy, url |-> CurrentPath, error |-> "403 Forbidden",
          status_code |-> SomeCode(403)]
    ELSE IF res.ok
    THEN [proxy_url |-> main.proxy, url |-> CurrentPath, error |-> "",
          status_code |-> SomeCode(res.status)]
    ELSE [proxy_url |-> main.proxy, url |-> CurrentPath, error |-> res.error,
          status_code |-> NoneCode]

\* let mut page_number = 1; let mut retry_count = 0; let mut proxy_retry_count = 0
MainStart ==
    /\ vpc = "ready"
    /\ main.pc = "off"
    /\ main' = [main EXCEPT !.pc = "acquire"]
    /\ UNCHANGED <<config_vars, served, exhausted, pool_vars, lock_vars, clock,
                   validation_vars, caller_vars>>

\* proxy_manager.get_proxy().await
MainGetProxy ==
    /\ main.pc = "acquire"
    /\ StartCall("c1", "get_proxy", NoArgs)
    /\ main' = [main EXCEPT !.pc = "acquiring",
                            !.attempts = IF exhausted # <<>> THEN @ + 1 ELSE @]

\* Ok(p) => p; Err(e) => break when retry_count >= config.max_retries, else
\* retry_count += 1, sleep, continue
MainGotProxy ==
    /\ main.pc = "acquiring"
    /\ pc["c1"] = "idle"
    /\ main' =
          IF ret["c1"].kind = "Ok"
          THEN [main EXCEPT !.pc = "request", !.proxy = ret["c1"].url]
          ELSE IF main.retry_count >= config.max_retries
          THEN [main EXCEPT !.pc = "report"]
          ELSE [main EXCEPT !.pc = "acquire", !.retry_count = @ + 1]
    /\ UNCHANGED <<config_vars, served, exhausted, pool_vars, lock_vars, clock,
                   validation_vars, caller_vars>>

\* match client.get(&current_path).await: mark_proxy_failure(.., Some(403), ..)
\* for Ok with status 403, mark_proxy_success for any other Ok,
\* mark_proxy_failure(.., None, ..) for Err
MainRequest(outcome) ==
    /\ main.pc = "request"
    /\ LET res == request(outcome) IN
       /\ StartCall("c1",
                    IF res.ok /\ res.status # 403 THEN "mark_proxy_success"
                    ELSE "mark_proxy_failure",
                    ReportArgs(res))
       /\ main' = [main EXCEPT !.pc = IF res.ok /\ res.status # 403
                                      THEN "marking_success" ELSE "marking_failure",
                               !.status = outcome.status]

\* after mark_proxy_failure: the two retry counters, sleep, continue
MainMarkedFailure ==
    /\ main.pc = "marking_failure"
    /\ pc["c1"] = "idle"
    /\ main' =
          IF main.proxy_retry_count >= config.max_retries
          THEN IF main.retry_count >= config.max_retries
               THEN [main EXCEPT !.pc = "report"]
               ELSE [main EXCEPT !.pc = "acquire", !.retry_count = @ + 1,
                                 !.proxy_retry_count = 0]
          ELSE [main EXCEPT !.pc = "acquire", !.proxy_retry_count = @ + 1]
    /\ UNCHANGED <<config_vars, served, exhausted, pool_vars, lock_vars, clock,
                   validation_vars, caller_vars>>

\* what becomes of a page that was fetched: it names a next page, it is the
\* last one, or saving or analysing it fails
PageOutcomes == {"next", "last", "error"}

\* after mark_proxy_success: counters reset, save_html(..)?, analyze()?, then
\* the next page, or break on the last one
MainMarkedSuccess(page) ==
    /\ main.pc = "marking_success"
    /\ pc["c1"] = "idle"
    /\ page = "next" => main.page_number < MaxPages
    /\ main' =
          CASE page = "error" ->
                 [main EXCEPT !.pc = "aborted", !.retry_count = 0,
                              !.proxy_retry_count = 0]
            [] page = "next" ->
                 [main EXCEPT !.pc = "acquire", !.retry_count = 0,
                              !.proxy_retry_count = 0, !.page_number = @ + 1]
            [] page = "last" ->
                 [main EXCEPT !.pc = "report", !.retry_count = 0,
                              !.proxy_retry_count = 0]
    /\ UNCHANGED <<config_vars, served, exhausted, pool_vars, lock_vars, clock,
                   validation_vars, caller_vars>>

\* mutant: the report is printed when the loop is left and again before the
\* processing phase
MainReported_Again ==
    /\ main.pc = "reporting"
    /\ pc["c1"] = "idle"
    /\ main' = [main EXCEPT !.pc = IF main.reports < 2 THEN "report" ELSE "done"]
    /\ UNCHANGED <<config_vars, served, exhausted, pool_vars, lock_vars, clock,
                   validation_vars, caller_vars>>

\* print_report has returned: the download phase is over
MainReported ==
    /\ main.pc = "reporting"
    /\ pc["c1"] = "idle"
    /\ main' = [main EXCEPT !.pc = "done"]
    /\ UNCHANGED <<config_vars, served, exhausted, pool_vars, lock_vars, clock,
                   validation_vars, caller_vars>>

\* proxy_manager.print_report().await
MainReport ==
    /\ main.pc = "report"
    /\ StartCall("c1", "print_report", NoArgs)
    /\ main' = [main EXCEPT !.pc = "reporting", !.reports = @ + 1]

MainSteps ==
    \/ MainStart
    \/ MainGetProxy
    \/ MainGotProxy
    \/ \E o \in RequestOutcomes : MainRequest(o)
    \/ MainMarkedFailure
    \/ \E page \in PageOutcomes : MainMarkedSuccess(page)
    \/ MainReport
    \/ MainReported

\* the steps of the pool calls in progress
PoolSteps ==
    \E c \in Callers :
        \/ LockWorking(c)
        \/ GetProxy(c)
        \/ MarkProxySuccess(c)
        \/ MarkProxyFailure(c)
        \/ PrintReport(c)

NextDownload == Validate \/ MainSteps \/ PoolSteps

\* main: construction, then the download loop and the report
SpecDownload == InitDownload /\ [][NextDownload]_vars

\* the same on a runtime that runs main whenever it can run
SpecDownloadFair ==
    /\ InitDownload
    /\ [][NextDownload]_vars
    /\ WF_vars(Validate)
    /\ WF_vars(MainSteps)
    /\ WF_vars(PoolSteps)

\* the steps of probe task i: its probe ends one way or another, then it
\* records the outcome
TaskSteps(i) ==
    /\ i \in DOMAIN proxies
    /\ \/ \E o \in ProbeOutcomes : ProbeComplete(i, o)
       \/ \E t \in 0..MaxClock : InsertWorking(i, t)
       \/ PushDead(i)

\* the steps of validate_proxies itself
LoopSteps ==
    \/ SpawnProbe
    \/ LoopExit
    \/ \E i \in DOMAIN proxies : DrainYield(i)
    \/ DrainEnd
    \/ CheckWorking

\* construction on a runtime that runs every task that can run, where every
\* probe ends
SpecValidationFair ==
    /\ InitValidation
    /\ [][Validate]_vars
    /\ WF_vars(LoopSteps)
    /\ \A i \in 1..MaxCandidates : WF_vars(TaskSteps(i))

\* the steps of a call in progress
CallSteps(c) ==
    \/ LockWorking(c)
    \/ GetProxy(c)
    \/ MarkProxySuccess(c)
    \/ MarkProxyFailure(c)
    \/ PrintReport(c)

\* two callers on a scheduler that runs every task that can run, and a Mutex
\* that hands the lock to every waiter in turn
SpecFair ==
    /\ InitConcurrent
    /\ [][Next]_vars
    /\ \A c \in Callers : WF_vars(CallSteps(c)) /\ SF_vars(LockWorking(c))

\* the download loop on a request that keeps failing: get_proxy, then
\* mark_proxy_failure without a status code
ScenarioFailureArgs ==
    {[proxy_url |-> u, url |-> "/p2", error |-> "Request failed",
      status_code |-> NoneCode] : u \in ScenarioUrls}

ScenarioCalls ==
    \E c \in Callers :
        \/ \E a \in GetProxyArgs : Call(c, "get_proxy", a)
        \/ \E a \in ScenarioFailureArgs : Call(c, "mark_proxy_failure", a)
        \/ LockWorking(c)
        \/ GetProxy(c)
        \/ MarkProxyFailure(c)

NextScenario == Validate \/ ScenarioCalls

SpecScenario == InitScenario /\ [][NextScenario]_vars

\* the download loop on requests that succeed or fail: get_proxy,
\* mark_proxy_success, mark_proxy_failure without a status code
RoundRobinCalls ==
    \E c \in Callers :
        \/ \E a \in GetProxyArgs : Call(c, "get_proxy", a)
        \/ \E a \in MarkSuccessArgs : Call(c, "mark_proxy_success", a)
        \/ \E a \in ScenarioFailureArgs : Call(c, "mark_proxy_failure", a)
        \/ LockWorking(c)
        \/ GetProxy(c)
        \/ MarkProxySuccess(c)
        \/ MarkProxyFailure(c)

NextRoundRobin == Validate \/ RoundRobinCalls

SpecRoundRobin == InitRoundRobin /\ [][NextRoundRobin]_vars

\* ================================================================ claims
Working == DOMAIN working_proxies
Dead == Range(dead_proxies)
ValidationDone == vpc \in {"ready", "failed"}
LockLabels == {"gp_lock", "ms_lock", "mf_lock", "pr_lock"}
\* caller c takes a step / returns from its call in this step
Steps(c) == pc'[c] # pc[c]
Returns(c) == pc[c] # "idle" /\ pc'[c] = "idle"

\* C1: once validation has finished, every candidate URL is in exactly one of
\* working_proxies and dead_proxies.
C1_ExactlyOneOfWorkingDead ==
    ValidationDone =>
        \A i \in DOMAIN proxies : (proxies[i] \in Working) # (proxies[i] \in Dead)

\* C2: Dead is terminal: after construction a URL of dead_proxies is never put
\* (back) into working_proxies and get_proxy never returns it.
C2_DeadIsTerminal ==
    [][vpc = "ready" =>
        \A u \in Dead :
            /\ u \notin Working => u \notin DOMAIN working_proxies'
            /\ \A c \in Callers :
                  (pc[c] = "gp_select" /\ Returns(c)) => ret'[c].url # u]_vars

\* C3: with threshold T >= 1 a proxy leaves working_proxies only in the
\* mark_proxy_failure call for it that made its failures equal T, that call
\* has appended it to dead_proxies when it returns, and no mark_proxy_failure
\* call returns leaving its proxy in working_proxies with failures >= T.
C3_EvictionExactness ==
    [][(vpc = "ready" /\ max_retries >= 1) =>
        /\ \A u \in Working \ DOMAIN working_proxies' :
              \E c \in Callers :
                  /\ pc[c] = "mf_remove" /\ Steps(c)
                  /\ op_args[c].proxy_url = u
                  /\ working_proxies[u].failures = max_retries
        /\ \A c \in Callers :
              (pc[c] = "mf_return" /\ Returns(c)) =>
                  LET u == op_args[c].proxy_url IN
                  /\ u \in Working => working_proxies[u].failures < max_retries
                  /\ removed_state[c] # NoState =>
                        u \notin Working /\ dead_proxies[Len(dead_proxies)] = u]_vars

\* the evicting call at T = 2: the second consecutive failure
C3_Witness ==
    \E c \in Callers :
        /\ pc[c] = "mf_return" /\ max_retries = 2
        /\ removed_state[c].failures = 2
        /\ op_args[c].proxy_url \notin Working

\* (failures, last_used) of a is lexicographically at most that of b
LexLeq(a, b) ==
    \/ a.failures < b.failures
    \/ a.failures = b.failures /\ a.last_used <= b.last_used

\* C4: the URL get_proxy returns is the key of a working entry whose
\* (failures, last_used) is lexicographically least among all working entries.
C4_SelectsLexMin ==
    [][\A c \in Callers :
        (pc[c] = "gp_select" /\ Returns(c)) =>
            /\ ret'[c].kind = "Ok"
            /\ ret'[c].url \in Working
            /\ \A v \in Working :
                  LexLeq(working_proxies[ret'[c].url], working_proxies[v])]_vars

\* get_proxy selects between a fresher proxy without failures and a
\* least-recently-used proxy with a failure
C4_Witness ==
    \E c \in Callers, u, v \in Working :
        /\ pc[c] = "gp_select"
        /\ working_proxies[u].failures < working_proxies[v].failures
        /\ working_proxies[u].last_used > working_proxies[v].last_used

\* ---- the four operations run alone on a pool p: get_proxy, lines 193-249
SeqSweep(p, order) ==
    LET kept == DOMAIN p.working \ Range(order)
        live == DOMAIN p.stats \ {p.working[u].stats : u \in Range(order)}
    IN [p EXCEPT !.working = Restrict(p.working, kept),
                 !.dead = p.dead \o order,
                 !.stats = Restrict(p.stats, live)]

SeqGetProxy(p) ==
    LET expired == {u \in DOMAIN p.working : p.working[u].failures >= max_retries}
    IN UNION {
         LET q == SeqSweep(p, order) IN
         IF DOMAIN q.working = {}
         THEN {<<q, ExhaustedError(q.dead)>>}
         ELSE {LET key == MinBy(q.working, iter, 2, iter[1]) IN
               <<[q EXCEPT !.working[key] = Touch(@, t)],
                 [kind |-> "Ok", url |-> q.working[key].url, failed_proxies |-> <<>>]>> :
                  iter \in IterOrders(DOMAIN q.working), t \in 0..MaxClock}
         : order \in IterOrders(expired)}

\* mark_proxy_success run alone, lines 251-266
SeqMarkSuccess(p, a) ==
    IF a.proxy_url \notin DOMAIN p.working THEN {<<p, OkUnit>>}
    ELSE {<<[p EXCEPT !.working[a.proxy_url].failures = 0,
                      !.working[a.proxy_url].last_used = t,
                      !.stats[p.working[a.proxy_url].stats] =
                          record_success(@, a.url, a.status_code.code)],
            OkUnit>> : t \in 0..MaxClock}

\* mark_proxy_failure run alone, lines 268-301
SeqMarkFailure(p, a) ==
    IF a.proxy_url \notin DOMAIN p.working THEN {<<p, OkUnit>>}
    ELSE LET u == a.proxy_url
             id == p.working[u].stats
             q == [p EXCEPT !.working[u].failures = @ + 1,
                            !.stats[id] = record_failure(@, a.url, a.error, a.status_code)]
         IN IF q.working[u].failures >= max_retries
            THEN {<<[q EXCEPT !.working = Restrict(q.working, DOMAIN q.working \ {u}),
                              !.dead = Append(q.dead, u),
                              !.archive = [v \in DOMAIN q.archive \cup {u} |->
                                             IF v = u THEN id ELSE q.archive[v]]],
                    OkUnit>>}
            ELSE {<<q, OkUnit>>}

\* print_report run alone, lines 303-333
SeqPrintReport(p) == {<<p, OkUnit>>}

\* what the call caller c is returning from gives when run alone on snap[c]
SeqOutcomes(c) ==
    CASE pc[c] \in {"gp_exhausted", "gp_select"} -> SeqGetProxy(snap[c])
      [] pc[c] = "ms_return" -> SeqMarkSuccess(snap[c], op_args[c])
      [] pc[c] = "mf_return" -> SeqMarkFailure(snap[c], op_args[c])
      [] pc[c] = "pr_return" -> SeqPrintReport(snap[c])

\* C5: concurrent calls are serializable in the order in which they take
\* working_lock: the pool changes only in steps of the call holding
\* working_lock, a call keeps working_lock until it returns, and the pool and
\* the value a call returns with are those of the same call run alone on the
\* pool it found when it took the lock.
C5_Serializable ==
    [][vpc = "ready" =>
        /\ Pool' # Pool =>
              \E c \in Callers : working_lock = c /\ Steps(c)
        /\ \A c \in Callers :
              /\ (working_lock = c /\ working_lock' # c) => Returns(c)
              /\ (Returns(c) /\ pc[c] = "pr_return") =>
                    report'[c] = [working |-> Cardinality(DOMAIN snap[c].working),
                                  dead |-> Len(snap[c].dead)]
              /\ Returns(c) => <<Pool', ret'[c]>> \in SeqOutcomes(c)]_vars

\* two mark_proxy_failure calls for the same proxy overlap, the first of them
\* about to evict it
C5_Witness ==
    \E c, d \in Callers :
        /\ pc[c] = "mf_remove" /\ pc[d] = "mf_lock"
        /\ op_args[c].proxy_url = op_args[d].proxy_url

\* C6: while a call is between removing an evicted proxy from working_proxies
\* and having appended it to dead_proxies and archived its stats, it holds
\* working_lock and no other call is past its lock acquisition.
MidEviction(c) == pc[c] \in {"mf_push", "mf_archive", "gp_push"}
CanRead(c) == pc[c] \notin LockLabels \cup {"idle"}

C6_EvictionAtomic ==
    \A c \in Callers :
        MidEviction(c) =>
            /\ working_lock = c
            /\ \A d \in Callers \ {c} : ~CanRead(d)

\* an eviction is half done while another caller waits to read the pool
C6_Witness ==
    \E c, d \in Callers :
        /\ pc[c] = "mf_archive"
        /\ pc[d] \in {"pr_lock", "gp_lock"}

\* C7: a mark_proxy_success call whose proxy is not in working_proxies changes
\* no part of the pool in any of its steps and returns Ok.
C7_AbsentSuccessIsNoOp ==
    [][\A c \in Callers :
        (/\ pc[c] \in {"ms_get", "ms_stats", "ms_return"}
         /\ Steps(c)
         /\ op_args[c].proxy_url \notin Working) =>
            /\ pool_vars' = pool_vars
            /\ Returns(c) => ret'[c] = OkUnit]_vars

\* mark_proxy_success for an evicted proxy is about to return
C7_Witness ==
    \E c \in Callers :
        /\ pc[c] = "ms_return"
        /\ op_args[c].proxy_url \notin Working
        /\ op_args[c].proxy_url \in Dead
        /\ op_args[c].proxy_url \in DOMAIN all_stats

\* C8: in every step the failures of a proxy that stays in working_proxies is
\* unchanged, or one more (mark_proxy_failure for it), or 0
\* (mark_proxy_success for it).
C8_FailureCountSteps ==
    [][\A u \in Working \cap DOMAIN working_proxies' :
        LET f == working_proxies[u].failures
            g == working_proxies'[u].failures
        IN g # f =>
            \E c \in Callers :
                /\ Steps(c)
                /\ op_args[c].proxy_url = u
                /\ \/ pc[c] = "mf_get" /\ g = f + 1
                   \/ pc[c] = "ms_get" /\ g = 0]_vars

\* a success has reset the count of a proxy that had failed
C8_Witness ==
    \E c \in Callers :
        /\ pc[c] = "ms_stats"
        /\ LET st == working_proxies[op_args[c].proxy_url] IN
           st.failures = 0 /\ proxy_stats[st.stats].failed_requests = 1

\* C9: construction fails (NoWorkingProxies) exactly when no probe succeeded,
\* and a constructed pool has a working proxy.
C9_FailsIffNoProbeSucceeded ==
    /\ ValidationDone =>
          (vpc = "failed" <=> \A i \in DOMAIN proxies : task_state[i] # "finished_ok")
    /\ vpc = "ready" => Working # {}

\* construction succeeded although a probe failed
C9_Witness ==
    /\ vpc = "ready"
    /\ \E i \in DOMAIN proxies : task_state[i] = "finished_failed"

\* probe tasks started and not finished
InFlight == {i \in DOMAIN proxies : task_state[i] \in {"probing", "probe_ok", "probe_failed"}}

\* C10: at most concurrent_validations probe tasks are in flight.
C10_AtMostNInFlight == Cardinality(InFlight) <= concurrent_validations

\* how far a probe task has got
TaskRank(st) ==
    CASE st = "unspawned" -> 0
      [] st = "probing" -> 1
      [] st \in {"probe_ok", "probe_failed"} -> 2
      [] st \in FinishedStates -> 3

\* C11: validation starts one probe task for each candidate, in list order and
\* whatever earlier probes gave, a task never starts again, and the emptiness
\* check (and the return of new) comes only when every task has finished and
\* has recorded its candidate in working_proxies or dead_proxies.
C11_EveryProbeOnceThenCheck ==
    [][/\ \A i \in DOMAIN proxies :
            /\ TaskRank(task_state'[i]) >= TaskRank(task_state[i])
            /\ (task_state[i] = "unspawned" /\ task_state'[i] # "unspawned") =>
                  /\ task_state'[i] = "probing"
                  /\ i = next_candidate
                  /\ \A j \in 1..(i - 1) : task_state[j] # "unspawned"
       /\ vpc' \in {"check", "ready", "failed"} =>
            \A i \in DOMAIN proxies :
                /\ task_state'[i] \in FinishedStates
                /\ task_state'[i] = "finished_ok" => proxies[i] \in DOMAIN working_proxies'
                /\ task_state'[i] = "finished_failed" => proxies[i] \in Range(dead_proxies')]_vars

\* the emptiness test is reached with the longest list, a failed first probe and a
\* later probe that succeeded, after a drain in the middle of the list
C11_Witness ==
    /\ vpc = "check"
    /\ Len(proxies) = MaxCandidates
    /\ concurrent_validations = MaxConcurrent
    /\ task_state[1] = "finished_failed"
    /\ task_state[MaxCandidates] = "finished_ok"

ProbeFailures == {"non200", "transport", "timeout", "late_response"}

\* C12: a probe task inserts its candidate into working_proxies exactly when
\* its probe got status 200 before the timeout; after a non-200 status, a
\* transport error or a timeout it appends the candidate to dead_proxies; no
\* other step of validation changes the two collections, and a response that
\* arrives after the timeout changes neither the pool nor the task.
C12_WorkingIffStatus200 ==
    [][vpc # "ready" =>
        /\ \A i \in DOMAIN proxies :
              /\ task_state'[i] = "probe_ok" => probe_result'[i] = "success"
              /\ task_state'[i] = "probe_failed" => probe_result'[i] \in ProbeFailures
              /\ (task_state[i] # "finished_ok" /\ task_state'[i] = "finished_ok") =>
                    /\ probe_result[i] = "success"
                    /\ proxies[i] \in DOMAIN working_proxies'
                    /\ DOMAIN working_proxies' = DOMAIN working_proxies \cup {proxies[i]}
                    /\ dead_proxies' = dead_proxies
              /\ (task_state[i] # "finished_failed" /\ task_state'[i] = "finished_failed") =>
                    /\ probe_result[i] \in ProbeFailures
                    /\ dead_proxies' = Append(dead_proxies, proxies[i])
                    /\ working_proxies' = working_proxies
              /\ (probe_result[i] = "timeout" /\ probe_result'[i] = "late_response") =>
                    /\ pool_vars' = pool_vars
                    /\ task_state' = task_state
        /\ (working_proxies' # working_proxies \/ dead_proxies' # dead_proxies) =>
              \E i \in DOMAIN proxies :
                  task_state[i] \notin FinishedStates /\ task_state'[i] \in FinishedStates]_vars

\* the response to a timed-out probe has arrived after the candidate was
\* declared dead, next to a candidate that validated
C12_Witness ==
    \E i, j \in DOMAIN proxies :
        /\ probe_result[i] = "late_response"
        /\ task_state[i] = "finished_failed"
        /\ proxies[i] \in Range(dead_proxies)
        /\ proxies[i] \notin DOMAIN working_proxies
        /\ task_state[j] = "finished_ok"

\* the end-to-end example: three candidates probing success, success, failed
ScenarioProbes ==
    /\ Len(proxies) = Cardinality(ScenarioUrls)
    /\ max_retries = DefaultMaxRetries
    /\ task_state = <<"finished_ok", "finished_ok", "finished_failed">>

\* u has been marked failed twice and evicted
FailedOut(u) ==
    /\ u \in DOMAIN all_stats
    /\ proxy_stats[all_stats[u]].failed_requests = DefaultMaxRetries

\* C13: get_proxy fails exactly when working_proxies is empty after the sweep;
\* the error is AllProxiesExhausted listing every URL of dead_proxies in list
\* order if dead_proxies is non-empty, NoWorkingProxies otherwise.  In the
\* example (success, success, timeout, T = 2) construction leaves two working
\* and one dead proxy, and once both working proxies were marked failed twice
\* get_proxy fails with AllProxiesExhausted and a list of three.
C13_ExhaustedCarriesDeadList ==
    [][\A c \in Callers :
        /\ (pc[c] = "gp_check" /\ Steps(c)) =>
              (pc'[c] = "gp_exhausted" <=> DOMAIN working_proxies = {})
        /\ (pc[c] = "gp_exhausted" /\ Returns(c)) =>
              IF dead_proxies # <<>>
              THEN /\ ret'[c].kind = "AllProxiesExhausted"
                   /\ Len(ret'[c].failed_proxies) = Len(dead_proxies)
                   /\ \A k \in DOMAIN dead_proxies :
                         ret'[c].failed_proxies[k][1] = dead_proxies[k]
              ELSE ret'[c].kind = "NoWorkingProxies"
        /\ (ScenarioProbes /\ vpc = "check" /\ vpc' = "ready") =>
              /\ Cardinality(DOMAIN working_proxies') = 2
              /\ Len(dead_proxies') = 1
        /\ (/\ ScenarioProbes
            /\ pc[c] \in {"gp_exhausted", "gp_select"} /\ Returns(c)
            /\ FailedOut(proxies[1]) /\ FailedOut(proxies[2])) =>
              /\ ret'[c].kind = "AllProxiesExhausted"
              /\ Len(ret'[c].failed_proxies) = 3
              /\ ret'[c].failed_proxies[1][1] = proxies[3]]_vars

\* the example has run to its end: the error lists the candidate that failed
\* validation first, then the two evicted proxies
C13_Witness ==
    \E c \in Callers :
        /\ ScenarioProbes
        /\ FailedOut(proxies[1]) /\ FailedOut(proxies[2])
        /\ ret[c].kind = "AllProxiesExhausted"
        /\ Len(ret[c].failed_proxies) = 3
        /\ ret[c].failed_proxies[1][1] = proxies[3]
        /\ ret[c].failed_proxies[2][1] = proxies[2]

\* the entries the sweep of the get_proxy call of c has to evict
Expired(c) ==
    {u \in DOMAIN snap[c].working : snap[c].working[u].failures >= max_retries}

\* C14: when get_proxy returns, every entry it found with failures >= T is
\* out of working_proxies, in dead_proxies, and its ProxyStats is in all_stats
\* under its URL; the proxy get_proxy returns has failures < T.
C14_SweepArchivesStats ==
    [][\A c \in Callers :
        (pc[c] \in {"gp_exhausted", "gp_select"} /\ Returns(c)) =>
            /\ \A u \in Expired(c) :
                  /\ u \notin DOMAIN working_proxies'
                  /\ u \in Range(dead_proxies')
                  /\ u \in DOMAIN all_stats'
                  /\ all_stats'[u] = snap[c].working[u].stats
                  /\ all_stats'[u] \in DOMAIN proxy_stats'
            /\ ret'[c].kind = "Ok" =>
                  working_proxies'[ret'[c].url].failures < max_retries]_vars

\* the ProxyStats records reachable for URL u: through its working entry,
\* through the archive
LiveStats(u) ==
    IF u \in DOMAIN working_proxies THEN {working_proxies[u].stats} ELSE {}
ArchivedStats(u) ==
    IF u \in DOMAIN all_stats THEN {all_stats[u]} ELSE {}

\* C15: after construction, whenever no call is in progress on the pool, every
\* proxy that passed validation has its ProxyStats either in its
\* working_proxies entry or in all_stats under its URL, not both, not neither,
\* and the record exists.
C15_StatsNeverDestroyed ==
    (vpc = "ready" /\ working_lock = NoHolder) =>
        \A i \in DOMAIN proxies :
            task_state[i] = "finished_ok" =>
                /\ Cardinality(LiveStats(proxies[i])) + Cardinality(ArchivedStats(proxies[i])) = 1
                /\ LiveStats(proxies[i]) \cup ArchivedStats(proxies[i]) \subseteq DOMAIN proxy_stats

\* requests counted under a status code
CountOf(h, code) == IF code \in DOMAIN h THEN h[code] ELSE 0

\* C16: a mark_proxy_success call that found its proxy in working_proxies
\* returns with the proxy's failures 0 and its last_used the present instant,
\* total_requests, successful_requests and the histogram count of the status
\* code one higher than it found them, the request URL appended at the end
\* of successful_urls, and the other histogram counts, failed_requests and
\* failed_urls as it found them.
C16_SuccessRecorded ==
    [][\A c \in Callers :
        (/\ pc[c] = "ms_return" /\ Returns(c)
         /\ op_args[c].proxy_url \in DOMAIN snap[c].working) =>
            LET u == op_args[c].proxy_url
                code == op_args[c].status_code.code
                old == snap[c].stats[snap[c].working[u].stats]
                new == proxy_stats'[working_proxies'[u].stats]
            IN /\ working_proxies'[u].stats = snap[c].working[u].stats
               /\ working_proxies'[u].failures = 0
               /\ working_proxies'[u].last_used = clock'
               /\ working_proxies'[u].last_used >= snap[c].working[u].last_used
               /\ new.total_requests = old.total_requests + 1
               /\ new.successful_requests = old.successful_requests + 1
               /\ CountOf(new.status_codes, code) = CountOf(old.status_codes, code) + 1
               /\ \A k \in (DOMAIN old.status_codes \cup DOMAIN new.status_codes) \ {code} :
                     CountOf(new.status_codes, k) = CountOf(old.status_codes, k)
               /\ new.successful_urls = Append(old.successful_urls, op_args[c].url)
               /\ new.failed_requests = old.failed_requests
               /\ new.failed_urls = old.failed_urls]_vars

\* a second success is recorded for a proxy that had also failed once
C16_Witness ==
    \E c \in Callers :
        /\ pc[c] = "ms_return"
        /\ op_args[c].proxy_url \in DOMAIN working_proxies
        /\ LET st == proxy_stats[working_proxies[op_args[c].proxy_url].stats] IN
           /\ st.successful_requests = 2
           /\ st.failed_requests = 1
           /\ Len(st.successful_urls) = 2

\* C17: a mark_proxy_failure call that found its proxy in working_proxies
\* returns with the proxy's failures, total_requests and failed_requests one
\* higher than it found them, the histogram count of the status code one
\* higher if a code was given and the histogram as found otherwise,
\* (request URL, reason) appended at the end of failed_urls; if the call
\* evicted the proxy, all_stats holds under its URL the record with this
\* last failure in it.
C17_FailureRecorded ==
    [][\A c \in Callers :
        (/\ pc[c] = "mf_return" /\ Returns(c)
         /\ op_args[c].proxy_url \in DOMAIN snap[c].working) =>
            LET u == op_args[c].proxy_url
                a == op_args[c]
                id == snap[c].working[u].stats
                old == snap[c].stats[id]
                new == proxy_stats'[id]
                before == snap[c].working[u].failures
            IN /\ id \in DOMAIN proxy_stats'
               /\ new.total_requests = old.total_requests + 1
               /\ new.failed_requests = old.failed_requests + 1
               /\ new.failed_urls = Append(old.failed_urls, <<a.url, a.error>>)
               /\ new.successful_requests = old.successful_requests
               /\ new.successful_urls = old.successful_urls
               /\ IF a.status_code.some
                  THEN /\ CountOf(new.status_codes, a.status_code.code) =
                            CountOf(old.status_codes, a.status_code.code) + 1
                       /\ \A k \in DOMAIN old.status_codes \ {a.status_code.code} :
                             CountOf(new.status_codes, k) = old.status_codes[k]
                  ELSE new.status_codes = old.status_codes
               /\ IF u \in DOMAIN working_proxies'
                  THEN /\ working_proxies'[u].failures = before + 1
                       /\ working_proxies'[u].stats = id
                       /\ before + 1 < max_retries
                  ELSE /\ removed_state[c].failures = before + 1
                       /\ before + 1 >= max_retries
                       /\ u \in DOMAIN all_stats'
                       /\ all_stats'[u] = id]_vars

\* the failure that evicts at T = 2, reported without a status code after one
\* reported with a code: the archived record has both
C17_Witness ==
    \E c \in Callers :
        /\ pc[c] = "mf_return"
        /\ max_retries = 2
        /\ ~op_args[c].status_code.some
        /\ op_args[c].proxy_url \in DOMAIN all_stats
        /\ LET st == proxy_stats[all_stats[op_args[c].proxy_url]] IN
           /\ st.failed_requests = 2
           /\ Len(st.failed_urls) = 2
           /\ DOMAIN st.status_codes = {403}

\* how often u is in the list
Occurrences(list, u) == Cardinality({k \in DOMAIN list : list[k] = u})
\* the probes of candidate lines u that failed validation
FailedProbes(u) ==
    Cardinality({i \in DOMAIN proxies : proxies[i] = u /\ task_state[i] = "finished_failed"})

\* C18: after construction dead_proxies only grows, by one URL appended at
\* its end, in the push step of a call that found that URL in working_proxies
\* and has removed it; nothing enters working_proxies; so every URL is in
\* dead_proxies at most once more than validation put it there.
C18_EvictedAtMostOnce ==
    [][vpc = "ready" =>
        /\ DOMAIN working_proxies' \subseteq DOMAIN working_proxies
        /\ Len(dead_proxies') \in {Len(dead_proxies), Len(dead_proxies) + 1}
        /\ SubSeq(dead_proxies', 1, Len(dead_proxies)) = dead_proxies
        /\ dead_proxies' # dead_proxies =>
              \E c \in Callers :
                  /\ Steps(c) /\ pc[c] \in {"mf_push", "gp_push"}
                  /\ dead_proxies'[Len(dead_proxies')] \in DOMAIN snap[c].working
                  /\ dead_proxies'[Len(dead_proxies')] \notin DOMAIN working_proxies'
        /\ \A u \in Range(dead_proxies') :
              Occurrences(dead_proxies', u) <= FailedProbes(u) + 1]_vars

\* two mark_proxy_failure calls for the same proxy at failures = T - 1
\* overlap: the first has evicted it, the second waits for the lock
C18_Witness ==
    \E c, d \in Callers :
        /\ pc[c] = "mf_archive" /\ pc[d] = "mf_lock"
        /\ op_args[c].proxy_url = op_args[d].proxy_url
        /\ snap[c].working[op_args[c].proxy_url].failures = max_retries - 1
        /\ Occurrences(dead_proxies, op_args[c].proxy_url) = 1

\* caller c changes the entry of u in this step, in get_proxy's selection /
\* in mark_proxy_success
SelectsIt(c, u) == pc[c] = "gp_select" /\ Steps(c) /\ ret'[c].url = u
MarksSuccess(c, u) == pc[c] = "ms_get" /\ Steps(c) /\ op_args[c].proxy_url = u
LastUsedChanges(u) ==
    /\ u \in DOMAIN working_proxies \cap DOMAIN working_proxies'
    /\ working_proxies'[u].last_used # working_proxies[u].last_used

\* C19 as claimed: after construction the last_used of an entry changes only
\* in get_proxy selecting it.
C19_OnlyGetProxyWritesLastUsed ==
    [][vpc = "ready" =>
        \A u \in DOMAIN working_proxies :
            LastUsedChanges(u) => \E c \in Callers : SelectsIt(c, u)]_vars

\* C19 amended: after construction the last_used of an entry changes only in
\* get_proxy selecting it and in mark_proxy_success for it, to the present
\* instant; mark_proxy_failure and print_report never change it.
C19_LastUsedWriters ==
    [][vpc = "ready" =>
        /\ \A u \in DOMAIN working_proxies :
              LastUsedChanges(u) =>
                  /\ \E c \in Callers : SelectsIt(c, u) \/ MarksSuccess(c, u)
                  /\ working_proxies'[u].last_used = clock'
                  /\ working_proxies'[u].last_used > working_proxies[u].last_used
        /\ \A c \in Callers :
              (Steps(c) /\ pc[c] \in {"mf_get", "mf_stats", "mf_remove", "mf_push",
                                       "mf_archive", "mf_return", "pr_lock_dead",
                                       "pr_lock_all_stats", "pr_print", "pr_return"}) =>
                  \A u \in DOMAIN working_proxies \cap DOMAIN working_proxies' :
                      working_proxies'[u].last_used = working_proxies[u].last_used]_vars

\* mark_proxy_success has refreshed the last_used of its proxy
C19_Witness ==
    \E c \in Callers :
        /\ pc[c] = "ms_stats"
        /\ working_proxies[op_args[c].proxy_url].last_used >
              snap[c].working[op_args[c].proxy_url].last_used

\* C20: the failures of an entry and the contents of a ProxyStats record
\* change only in mark_proxy_success and mark_proxy_failure for that proxy:
\* no step of validation, get_proxy or print_report changes the failures of
\* an entry it keeps or a record that exists before and after it.
C20_CountersOnlyByMarks ==
    [][/\ \A u \in DOMAIN working_proxies \cap DOMAIN working_proxies' :
            working_proxies'[u].failures # working_proxies[u].failures =>
                \E c \in Callers :
                    /\ Steps(c) /\ pc[c] \in {"ms_get", "mf_get"}
                    /\ op_args[c].proxy_url = u
       /\ \A id \in DOMAIN proxy_stats \cap DOMAIN proxy_stats' :
            proxy_stats'[id] # proxy_stats[id] =>
                \E c \in Callers :
                    /\ Steps(c) /\ pc[c] \in {"ms_stats", "mf_stats"}
                    /\ op_args[c].proxy_url \in DOMAIN working_proxies
                    /\ working_proxies[op_args[c].proxy_url].stats = id
       /\ \A c \in Callers :
            (Steps(c) /\ pc[c] \in {"gp_select", "pr_print"}) =>
                /\ proxy_stats' = proxy_stats
                /\ \A u \in DOMAIN working_proxies :
                      working_proxies'[u].failures = working_proxies[u].failures]_vars

\* get_proxy has selected a proxy whose counters are not all zero
C20_Witness ==
    \E c \in Callers, u \in DOMAIN working_proxies :
        /\ working_proxies[u].failures = 1
        /\ proxy_stats[working_proxies[u].stats].failed_requests = 1
        /\ pc[c] = "idle" /\ ret[c].kind = "Ok" /\ ret[c].url = u

\* a line that is empty or whitespace only
IsBlank(line) == \A i \in DOMAIN line : line[i] = " "
NonBlankLines == SelectSeq(contents, LAMBDA line : ~IsBlank(line))

\* C21: the candidates are the non-blank lines of the proxy file, in order,
\* each trimmed and prefixed with socks5://; a blank line gives no candidate,
\* so the URL without a host is never probed and never in working_proxies or
\* dead_proxies.
C21_BlankLinesIgnored ==
    /\ proxies = [i \in DOMAIN NonBlankLines |-> "socks5://" \o Str(trim(NonBlankLines[i]))]
    /\ \A i \in DOMAIN proxies :
          proxies[i] = FormatProxy(<<>>) => task_state[i] = "unspawned"
    /\ FormatProxy(<<>>) \notin DOMAIN working_proxies \cup Range(dead_proxies)

AllLocksFree ==
    /\ working_lock = NoHolder /\ dead_lock = NoHolder /\ all_stats_lock = NoHolder
    /\ \A k \in DOMAIN stats_lock : stats_lock[k] = NoHolder

\* C22: during validation no lock of the pool is held while a probe is in
\* flight, nor after any step; the pool changes only in the step of one task
\* whose probe has ended, which inserts that task's entry or appends that
\* task's URL; so a task whose probe has ended can always record its outcome.
C22_NoLockAcrossProbe ==
    [][vpc \notin {"ready", "failed"} =>
        /\ AllLocksFree /\ AllLocksFree'
        /\ pool_vars' # pool_vars =>
              \E i \in DOMAIN proxies :
                  /\ task_state[i] \in {"probe_ok", "probe_failed"}
                  /\ task_state'[i] \in FinishedStates
                  /\ \A j \in DOMAIN proxies \ {i} : task_state'[j] = task_state[j]
                  /\ IF task_state[i] = "probe_ok"
                     THEN /\ dead_proxies' = dead_proxies
                          /\ DOMAIN working_proxies' = DOMAIN working_proxies \cup {proxies[i]}
                          /\ \A u \in DOMAIN working_proxies \ {proxies[i]} :
                                working_proxies'[u] = working_proxies[u]
                     ELSE /\ working_proxies' = working_proxies
                          /\ dead_proxies' = Append(dead_proxies, proxies[i])]_vars

\* the second probe of a batch has recorded its success while the first
\* probe is still in flight
C22_Witness ==
    /\ Len(proxies) >= 2
    /\ task_state[1] = "probing"
    /\ task_state[2] = "finished_ok"
    /\ proxies[2] \in DOMAIN working_proxies

\* all counters zero, all lists empty
ZeroCounters(st) ==
    /\ st.total_requests = 0 /\ st.successful_requests = 0 /\ st.failed_requests = 0
    /\ st.status_codes = <<>> /\ st.successful_urls = <<>> /\ st.failed_urls = <<>>

\* C23: the step in which a probe success is recorded creates a
\* working_proxies entry with failures 0 and a new ProxyStats with validation
\* status success and zero counters; the step in which a probe failure is
\* recorded only appends to dead_proxies and creates no ProxyStats; all_stats
\* is empty when construction returns, and a URL that failed validation never
\* has an all_stats entry.
C23_ValidationRecords ==
    [][/\ \A i \in DOMAIN proxies :
            /\ (task_state[i] = "probe_ok" /\ task_state'[i] = "finished_ok") =>
                  LET e == working_proxies'[proxies[i]] IN
                  /\ e.failures = 0 /\ e.url = proxies[i]
                  /\ e.stats \notin DOMAIN proxy_stats
                  /\ proxy_stats'[e.stats].validation_status = "success"
                  /\ ZeroCounters(proxy_stats'[e.stats])
            /\ (task_state[i] = "probe_failed" /\ task_state'[i] = "finished_failed") =>
                  /\ proxy_stats' = proxy_stats
                  /\ all_stats' = all_stats
                  /\ working_proxies' = working_proxies
            /\ task_state'[i] = "finished_failed" => proxies[i] \notin DOMAIN all_stats'
       /\ vpc # "ready" => all_stats' = <<>>]_vars

\* C24: no step of print_report changes working_proxies, dead_proxies,
\* all_stats or a ProxyStats, whatever other calls are in progress; from its
\* lock to its return the pool is the one it found, and the counts it reports
\* are the sizes of working_proxies and dead_proxies.
C24_PrintReportReadOnly ==
    [][\A c \in Callers :
        /\ (Steps(c) /\ pc[c] \in {"pr_lock", "pr_lock_dead", "pr_lock_all_stats",
                                    "pr_print", "pr_return"}) =>
              /\ pool_vars' = pool_vars
              /\ clock' = clock
        /\ pc[c] \in {"pr_lock_dead", "pr_lock_all_stats", "pr_print", "pr_return"} =>
              Pool' = snap[c]
        /\ (Steps(c) /\ pc[c] = "pr_print") =>
              /\ report'[c].working = Cardinality(DOMAIN working_proxies)
              /\ report'[c].dead = Len(dead_proxies)]_vars

\* a report of one working and one dead proxy is printed while another call
\* waits for the lock
C24_Witness ==
    \E c, d \in Callers :
        /\ pc[c] = "pr_return"
        /\ report[c].working = 1 /\ report[c].dead >= 1
        /\ pc[d] \in {"mf_lock", "ms_lock", "gp_lock"}

\* C25: on a constructed pool get_proxy never returns NoWorkingProxies:
\* whenever no call is in progress and working_proxies is empty dead_proxies
\* is not, and a get_proxy that finds no working proxy returns
\* AllProxiesExhausted.
C25_NoWorkingOnlyAtStartup ==
    [][vpc = "ready" =>
        /\ (working_lock' = NoHolder /\ DOMAIN working_proxies' = {}) =>
              dead_proxies' # <<>>
        /\ \A c \in Callers :
              /\ (pc[c] \in {"gp_exhausted", "gp_select"} /\ Returns(c)) =>
                    ret'[c].kind # "NoWorkingProxies"
              /\ (pc[c] = "gp_exhausted" /\ Returns(c)) =>
                    /\ ret'[c].kind = "AllProxiesExhausted"
                    /\ ret'[c].failed_proxies # <<>>]_vars

\* every candidate validated, all were evicted, get_proxy reports them
C25_Witness ==
    \E c \in Callers :
        /\ \A i \in DOMAIN proxies : task_state[i] = "finished_ok"
        /\ ret[c].kind = "AllProxiesExhausted"
        /\ DOMAIN working_proxies = {}

\* the get_proxy calls of the run from the i-th on, at most as many as there
\* were working proxies at the i-th
Window(i) == {j \in DOMAIN served : i <= j /\ j < i + served[i].k}
DistinctIn(i) ==
    \A j1, j2 \in Window(i) : served[j1].url = served[j2].url => j1 = j2

\* C26 as stated: when the working proxies all have the same failure count
\* and strictly increasing timestamps, k consecutive get_proxy calls, with
\* only success reports for the proxy just returned in between, return
\* distinct proxies.
C26_RoundRobin ==
    \A i \in DOMAIN served :
        (served[i].same /\ served[i].increasing) => DistinctIn(i)

\* C26 amended: the same when the common failure count is 0.
C26_RoundRobinHealthy ==
    \A i \in DOMAIN served :
        (served[i].zero /\ served[i].increasing) => DistinctIn(i)

\* two proxies without failures were returned in turn, the first one's
\* success reported in between
C26_Witness ==
    /\ Len(served) = 2
    /\ served[1].k = 2 /\ served[1].zero /\ served[1].increasing
    /\ served[1].url # served[2].url
    /\ \E u \in DOMAIN working_proxies :
          /\ u = served[1].url
          /\ proxy_stats[working_proxies[u].stats].successful_requests = 1

\* every lock but working_lock is held by the holder of working_lock only
NestedInWorking ==
    /\ dead_lock # NoHolder => dead_lock = working_lock
    /\ all_stats_lock # NoHolder => all_stats_lock = working_lock
    /\ \A k \in DOMAIN stats_lock :
          stats_lock[k] # NoHolder => stats_lock[k] = working_lock

\* C27: the calls take dead_proxies, all_stats and the stats locks only while
\* holding working_proxies, so whenever calls are in progress one of them can
\* take a step, and with a fair scheduler and a fair lock every call returns.
C27_DeadlockFree ==
    /\ [](NestedInWorking)
    /\ []((\E c \in Callers : pc[c] # "idle") =>
            \E d \in Callers : pc[d] # "idle" /\ ENABLED <<CallSteps(d)>>_vars)
    /\ \A c \in Callers : (pc[c] # "idle") ~> (pc[c] = "idle")

\* one call waits for working_proxies while the other holds it together with
\* dead_proxies
C27_Witness ==
    \E c, d \in Callers :
        /\ c # d
        /\ pc[c] \in LockLabels
        /\ working_lock = d /\ dead_lock = d

\* C28: when every probe ends and the concurrency limit is at least 1,
\* construction eventually returns, with every batch drained and every probe
\* task finished, whatever the number of candidates.
C28_ValidationTerminates ==
    concurrent_validations >= 1 =>
        <>(/\ ValidationDone
           /\ tasks = {}
           /\ \A i \in DOMAIN proxies : task_state[i] \in FinishedStates)

\* construction has returned a pool for a candidate list whose length is not
\* a multiple of the concurrency limit
C28_Witness ==
    /\ vpc = "ready"
    /\ concurrent_validations = MaxConcurrent
    /\ Len(proxies) % concurrent_validations # 0
    /\ \A i \in DOMAIN proxies : task_state[i] \in FinishedStates

SweepLabels == {"gp_lock_dead", "gp_remove", "gp_push", "gp_unlock_dead"}

\* C29: with a threshold of at least 1, whenever working_proxies is unlocked
\* every entry has fewer failures than the threshold; get_proxy's sweep never
\* finds an entry to evict, and an entry leaves working_proxies only in the
\* removal step of mark_proxy_failure.
C29_SweepIdle ==
    [][max_retries >= 1 =>
        /\ working_lock' = NoHolder =>
              \A u \in DOMAIN working_proxies' :
                  working_proxies'[u].failures < max_retries
        /\ \A c \in Callers :
              /\ pc'[c] \notin SweepLabels
              /\ (pc[c] = "gp_scan" /\ Steps(c)) => to_remove'[c] = <<>>
        /\ DOMAIN working_proxies' # DOMAIN working_proxies /\ vpc = "ready" =>
              \E c \in Callers :
                  /\ pc[c] = "mf_remove" /\ pc'[c] = "mf_push"
                  /\ DOMAIN working_proxies' =
                        DOMAIN working_proxies \ {op_args[c].proxy_url}]_vars

\* a get_proxy is past its sweep, which found nothing, on a pool from which
\* mark_proxy_failure has evicted a proxy
C29_Witness ==
    \E c \in Callers :
        /\ max_retries >= 1
        /\ pc[c] = "gp_check"
        /\ all_stats # <<>>
        /\ DOMAIN working_proxies # {}

\* the sum of the counts of a status-code histogram
RECURSIVE SumCodes(_)
SumCodes(h) ==
    IF DOMAIN h = {} THEN 0
    ELSE LET code == CHOOSE c \in DOMAIN h : TRUE
         IN h[code] + SumCodes([c \in DOMAIN h \ {code} |-> h[c]])

\* C30: every ProxyStats, of a working proxy or archived, has
\* total_requests = successful_requests + failed_requests, as many
\* successful_urls as successful_requests, as many failed_urls as
\* failed_requests, and a status-code histogram whose counts sum to at least
\* successful_requests and at most total_requests.
C30_StatsConsistent ==
    \A k \in DOMAIN proxy_stats :
        LET st == proxy_stats[k] IN
        /\ st.total_requests = st.successful_requests + st.failed_requests
        /\ Len(st.successful_urls) = st.successful_requests
        /\ Len(st.failed_urls) = st.failed_requests
        /\ st.successful_requests <= SumCodes(st.status_codes)
        /\ SumCodes(st.status_codes) <= st.total_requests

\* one ProxyStats has a success, a failure with a status code and a failure
\* without one
C30_Witness ==
    \E k \in DOMAIN proxy_stats :
        /\ proxy_stats[k].successful_requests = 1
        /\ proxy_stats[k].failed_requests = 2
        /\ SumCodes(proxy_stats[k].status_codes) = 2

\* C31: a mark_proxy_failure call whose proxy is not in working_proxies goes
\* straight to its return, changes no part of the pool and returns Ok; and in
\* every step every archived ProxyStats stays what it was, under the same
\* URL, and every URL of dead_proxies keeps its position.
C31_AbsentFailureIsNoOp ==
    [][/\ \A c \in Callers :
            (/\ pc[c] \in {"mf_get", "mf_return"}
             /\ Steps(c)
             /\ op_args[c].proxy_url \notin DOMAIN snap[c].working) =>
                /\ pool_vars' = pool_vars
                /\ pc'[c] \in {"mf_return", "idle"}
                /\ Returns(c) => ret'[c] = OkUnit
       /\ \A u \in DOMAIN all_stats :
            /\ u \in DOMAIN all_stats'
            /\ all_stats'[u] = all_stats[u]
            /\ proxy_stats'[all_stats[u]] = proxy_stats[all_stats[u]]
       /\ \A i \in DOMAIN dead_proxies :
            i \in DOMAIN dead_proxies' /\ dead_proxies'[i] = dead_proxies[i]]_vars

\* mark_proxy_failure for a proxy that was evicted and archived before the
\* call took the lock is about to return
C31_Witness ==
    \E c \in Callers :
        /\ pc[c] = "mf_return"
        /\ op_args[c].proxy_url \notin DOMAIN snap[c].working
        /\ op_args[c].proxy_url \in DOMAIN snap[c].archive
        /\ op_args[c].proxy_url \in Range(snap[c].dead)

GetProxyLabels ==
    {"gp_lock", "gp_scan", "gp_check", "gp_exhausted", "gp_select"} \cup SweepLabels

\* working map w2 is w1 but for the last_used of the entries of the URLs in us
SameButLastUsed(w1, w2, us) ==
    /\ DOMAIN w2 = DOMAIN w1
    /\ \A u \in DOMAIN w1 :
          /\ w2[u].url = w1[u].url
          /\ w2[u].failures = w1[u].failures
          /\ w2[u].stats = w1[u].stats
          /\ u \notin us => w2[u].last_used = w1[u].last_used

\* C32: with a threshold of at least 1, a step of get_proxy changes nothing
\* but, when it selects, the last_used of the proxy it returns; when the call
\* returns a proxy the pool is the one it found but for that timestamp, and
\* when it returns AllProxiesExhausted the pool is the one it found.
C32_GetProxyFrame ==
    [][max_retries >= 1 =>
        \A c \in Callers :
            (pc[c] \in GetProxyLabels /\ Steps(c)) =>
                /\ dead_proxies' = dead_proxies
                /\ all_stats' = all_stats
                /\ proxy_stats' = proxy_stats
                /\ SameButLastUsed(working_proxies, working_proxies',
                                   IF pc[c] = "gp_select" THEN {ret'[c].url} ELSE {})
                /\ (Returns(c) /\ ret'[c].kind = "Ok") =>
                      /\ Pool'.dead = snap[c].dead
                      /\ Pool'.archive = snap[c].archive
                      /\ Pool'.stats = snap[c].stats
                      /\ SameButLastUsed(snap[c].working, working_proxies',
                                         {ret'[c].url})
                /\ (Returns(c) /\ ret'[c].kind = "AllProxiesExhausted") =>
                      Pool' = snap[c]]_vars

\* get_proxy is about to select on a pool in which a proxy has a failure
\* below the threshold
C32_Witness ==
    \E c \in Callers :
        /\ max_retries >= 1
        /\ pc[c] = "gp_select"
        /\ \E u \in DOMAIN working_proxies : working_proxies[u].failures >= 1

\* C33: once a get_proxy call has returned AllProxiesExhausted, every
\* get_proxy call that returns later returns the same error with the same
\* list, whatever calls were made in between.
C33_ExhaustionAbsorbing ==
    [][\A c \in Callers :
        (/\ pc[c] \in {"gp_select", "gp_exhausted"}
         /\ Returns(c)
         /\ exhausted # <<>>) =>
            /\ exhausted[1].kind = "AllProxiesExhausted"
            /\ ret'[c] = exhausted[1]
            /\ exhausted' = Append(exhausted, exhausted[1])]_vars

\* get_proxy has failed twice on a pool whose last proxy was evicted by
\* mark_proxy_failure
C33_Witness ==
    /\ max_retries >= 1
    /\ all_stats # <<>>
    /\ Len(exhausted) = 2

\* C34 as stated: under a configuration that Config::validate accepted the
\* threshold, the probe timeout and the concurrency limit the pool reads are
\* all at least 1, and no working entry with failures 0 is at the threshold.
C34_AcceptedConfigInRange ==
    /\ max_retries >= 1
    /\ get_request_timeout(config) >= 1
    /\ concurrent_validations >= 1
    /\ \A u \in DOMAIN working_proxies :
          working_proxies[u].failures = 0 =>
              ~ReachedThreshold(working_proxies[u].failures)

\* C35 as stated: when a request of the download loop is answered with 403,
\* the loop calls mark_proxy_failure for the proxy in use with status code
\* Some(403), and that call adds one to the proxy's failures and one to the
\* count of 403 in its status-code histogram.
C35_ForbiddenReported ==
    [][/\ (main.pc = "request" /\ main'.pc # "request" /\ main'.status = 403) =>
            /\ pc'["c1"] = "mf_lock"
            /\ op_args'["c1"].proxy_url = main.proxy
            /\ op_args'["c1"].status_code = SomeCode(403)
       /\ (main.pc = "marking_failure" /\ main.status = 403) =>
            LET url == op_args["c1"].proxy_url IN
            /\ (pc["c1"] = "mf_get" /\ Steps("c1")) =>
                  working_proxies'[url].failures = working_proxies[url].failures + 1
            /\ (pc["c1"] = "mf_stats" /\ Steps("c1")) =>
                  LET id == working_proxies[url].stats IN
                  CountOf(proxy_stats'[id].status_codes, 403) =
                      CountOf(proxy_stats[id].status_codes, 403) + 1]_vars

\* C36: once get_proxy has returned an error to the download loop, the loop
\* calls get_proxy at most config.max_retries more times, does not end in an
\* error, and eventually is over with print_report called exactly once.
C36_LoopEndsWhenExhausted ==
    /\ [](main.attempts <= config.max_retries)
    /\ [](main.reports <= 1)
    /\ [](exhausted # <<>> => main.pc # "aborted")
    /\ (exhausted # <<>>) ~> (main.pc = "done" /\ main.reports = 1)

\* the loop is over after a pool, exhausted by reported failures, has
\* refused it a proxy once and then config.max_retries more times
C36_Witness ==
    /\ max_retries >= 1
    /\ main.pc = "done"
    /\ main.attempts = config.max_retries
    /\ Len(exhausted) = config.max_retries + 1
====
